---- MODULE Spec2Model ----
(***************************************************************************)
(* A model of the user-table access scripts of alx-backend-python:         *)
(*   python-generators-0x00   (batch / page / single-row generators,       *)
(*                             the streaming average)                      *)
(*   python-context-async-perations-0x02, python-decorators-0x01           *)
(*                            (scoped connection helpers)                  *)
(* Every generator is modelled by its resume step: one call of next() runs *)
(* the generator's code from where it is suspended to its next yield, to   *)
(* its end, or to the exception that leaves it.                            *)
(***************************************************************************)
EXTENDS Integers, Sequences, FiniteSets, TLC

VARIABLES
    users_db,     \* the table loaded from user_data.csv: a sequence of rows
    batch_size,   \* the argument the three chunked generators were created with
    sb,           \* a stream_users_in_batches(batch_size) generator
    lp,           \* a lazy_paginate(batch_size) generator
    bp,           \* a batch_processing(batch_size) generator
    ages_db,      \* 4-stream_ages.py's own users_db
    avg,          \* a call of calculate_average_age: its place and its locals
    user_data,    \* the rows of the store's user_data table, in the store's order
    su,           \* a stream_users() generator, with its locals
    dc,           \* a `with DatabaseConnection(...)` statement
    eq,           \* a `with ExecuteQuery(...)` statement
    wd,           \* a call of a function wrapped by with_db_connection
    users,        \* the users table of users.db: rows with an integer age
    t_all,        \* the task running async_fetch_users()
    t_older,      \* the task running async_fetch_older_users()
    fc,           \* a call of fetch_concurrently(): asyncio.gather over the two tasks
    gh,           \* a GithubOrgClient instance: _org_name and the attribute memoize sets
    repos_payload,\* what the organisation's repos_url answers: a list of repos
    get_json_calls,\* the URLs get_json was called with, in order
    ret,          \* what the last expression on the client evaluated to
    query_cache,  \* 4-cache_query.py's global dictionary: key -> stored result
    cache_table,  \* the users table that fetch_users_with_cache reads
    cq,           \* the calls of fetch_users_with_cache so far, and the last one
    messages,     \* the Message table: row pk is messages[pk]
    message_history,\* the MessageHistory table, in insertion order
    notifications,\* the Notification table, in insertion order
    instances,    \* the Message objects in memory, one per row: instances[pk]
    audit,        \* operations so far, messages created per receiver, content changes stored per message
    pw,           \* calls of paginate_users(page_size, offset) on users_db: the arguments and the results
    parent_message,\* parent_message[pk]: the message that pk replies to, 0 for None
    tq,           \* the last thread query: the method, the message it was called on, its result
    accounts,     \* the User rows
    tables,       \* the Message, Notification and MessageHistory tables
    before,       \* the tables as they were when user.delete() was called
    deleted_user, \* the user that was deleted, "None" before
    read_rows,    \* the stored rows: notifications (user, is_read) and messages (is_read)
    read_objs,    \* the objects in memory, one per row: their is_read attribute
    rd,           \* the last call: the method, its target, whether it called save()
    view_messages,\* the Message table the views write: sender, receiver, parent_message (0 for None)
    vr,           \* the last view call: the view, the logged-in user, whether it created a message
    ip_message_history,\* OffensiveLanguageMiddleware.ip_message_history: IP -> timestamps
    lock,         \* self.lock: the worker holding it, 0 when free
    workers,      \* each worker thread's position in __call__ / is_rate_limited and its locals
    wall          \* datetime.now() as the workers see it, with the counts of requests and ticks

batchVars == <<users_db, batch_size, sb, lp, bp>>
agesVars == <<ages_db, avg>>
streamVars == <<user_data, su>>
scopeVars == <<dc, eq, wd>>
concVars == <<users, t_all, t_older, fc>>
clientVars == <<gh, repos_payload, get_json_calls, ret>>
cacheVars == <<query_cache, cache_table, cq>>
messagingVars == <<messages, message_history, notifications, instances, audit>>
windowVars == <<pw>>
threadVars == <<parent_message, tq>>
accountVars == <<accounts, tables, before, deleted_user>>
readVars == <<read_rows, read_objs, rd>>
viewsVars == <<view_messages, vr>>
workersVars == <<ip_message_history, lock, workers, wall>>

vars == <<batchVars, agesVars, streamVars, scopeVars, concVars, clientVars, cacheVars, messagingVars, windowVars, threadVars, accountVars, readVars, viewsVars, workersVars>>

\* What the actions of one script leave alone: the state of the others.
notBatch == <<agesVars, streamVars, scopeVars, concVars, clientVars, cacheVars, messagingVars, windowVars, threadVars, accountVars, readVars, viewsVars, workersVars>>
notAges == <<batchVars, streamVars, scopeVars, concVars, clientVars, cacheVars, messagingVars, windowVars, threadVars, accountVars, readVars, viewsVars, workersVars>>
notStream == <<batchVars, agesVars, scopeVars, concVars, clientVars, cacheVars, messagingVars, windowVars, threadVars, accountVars, readVars, viewsVars, workersVars>>
notScope == <<batchVars, agesVars, streamVars, concVars, clientVars, cacheVars, messagingVars, windowVars, threadVars, accountVars, readVars, viewsVars, workersVars>>
notConc == <<batchVars, agesVars, streamVars, scopeVars, clientVars, cacheVars, messagingVars, windowVars, threadVars, accountVars, readVars, viewsVars, workersVars>>
notClient == <<batchVars, agesVars, streamVars, scopeVars, concVars, cacheVars, messagingVars, windowVars, threadVars, accountVars, readVars, viewsVars, workersVars>>
notCache == <<batchVars, agesVars, streamVars, scopeVars, concVars, clientVars, messagingVars, windowVars, threadVars, accountVars, readVars, viewsVars, workersVars>>
notMessaging == <<batchVars, agesVars, streamVars, scopeVars, concVars, clientVars, cacheVars, windowVars, threadVars, accountVars, readVars, viewsVars, workersVars>>
notWindow == <<batchVars, agesVars, streamVars, scopeVars, concVars, clientVars, cacheVars, messagingVars, threadVars, accountVars, readVars, viewsVars, workersVars>>
notThread == <<batchVars, agesVars, streamVars, scopeVars, concVars, clientVars, cacheVars, messagingVars, windowVars, accountVars, readVars, viewsVars, workersVars>>
notAccount == <<batchVars, agesVars, streamVars, scopeVars, concVars, clientVars, cacheVars, messagingVars, windowVars, threadVars, readVars, viewsVars, workersVars>>
notRead == <<batchVars, agesVars, streamVars, scopeVars, concVars, clientVars, cacheVars, messagingVars, windowVars, threadVars, accountVars, viewsVars, workersVars>>
notViews == <<batchVars, agesVars, streamVars, scopeVars, concVars, clientVars, cacheVars, messagingVars, windowVars, threadVars, accountVars, readVars, workersVars>>
notWorkers == <<batchVars, agesVars, streamVars, scopeVars, concVars, clientVars, cacheVars, messagingVars, windowVars, threadVars, accountVars, readVars, viewsVars>>

(***************************************************************************)
(* Bounds of the model.                                                    *)
(***************************************************************************)
MaxRows == 3
MaxBatch == 3
MaxExtraPulls == 2
MaxUses == 2
MaxRepos == 2
MaxCalls == 3
MaxMessages == 2
MaxReadMessages == 1
MaxOps == 3
MaxThread == 5
MaxNotifications == 2
MaxPosted == 3
MaxServed == 7
MaxWallTicks == 1

(***************************************************************************)
(* Data.  A text is the sequence of the code points of its characters      *)
(* ("20" is <<50, 48>>).  A row of user_data.csv is a record of its        *)
(* user_id (unique) and its age field, which is text.                      *)
(***************************************************************************)
\* The characters for which str.isspace() holds: what str.strip() removes.
Whitespace ==
    {9, 10, 11, 12, 13, 28, 29, 30, 31, 32, 133, 160, 5760} \cup (8192..8202)
        \cup {8232, 8233, 8239, 8287, 12288}

\* int() takes the same characters for blanks but the separators 28..31.
IntWhitespace == Whitespace \ (28..31)

\* The digit zero of every script with decimal digits (Unicode category
\* Nd); the digits one to nine of a script follow its zero.
DigitZeros ==
    {48, 1632, 1776, 1984, 2406, 2534, 2662, 2790, 2918, 3046, 3174, 3302,
     3430, 3558, 3664, 3792, 3872, 4160, 4240, 6112, 6160, 6470, 6608, 6784,
     6800, 6992, 7088, 7232, 7248, 42528, 43216, 43264, 43472, 43504, 43600,
     44016, 65296, 66720, 68912, 69734, 69872, 69942, 70096, 70384, 70736,
     70864, 71248, 71360, 71472, 71904, 72016, 72784, 73040, 73120, 92768,
     92864, 93008, 120782, 120792, 120802, 120812, 120822, 123200, 123632,
     125264, 130032}

IsDigit(c) == \E zero \in DigitZeros : c \in zero..(zero + 9)

DigitVal(c) == c - (CHOOSE zero \in DigitZeros : c \in zero..(zero + 9))

\* The age fields the batch tables are built from: "20" and "\f30" (either
\* side of the filter's threshold, one with a form feed before it) and "x"
\* (a field that is no integer).
BatchAgeFields == { <<50, 48>>, <<12, 51, 48>>, <<120>> }

UserTables(fields) ==
    UNION { { [i \in 1..n |-> [user_id |-> i, age |-> f[i]]] : f \in [1..n -> fields] }
            : n \in 0..MaxRows }

\* text.lstrip(chars), text.rstrip(chars)
RECURSIVE lstrip(_, _)
lstrip(text, chars) ==
    IF Len(text) > 0 /\ text[1] \in chars THEN lstrip(Tail(text), chars) ELSE text

RECURSIVE rstrip(_, _)
rstrip(text, chars) ==
    IF Len(text) > 0 /\ text[Len(text)] \in chars
    THEN rstrip(SubSeq(text, 1, Len(text) - 1), chars)
    ELSE text

\* text.strip(): text without its leading and trailing whitespace.
strip(text) == rstrip(lstrip(text, Whitespace), Whitespace)

\* The literal int() reads: text without the blanks around it.
Literal(text) == rstrip(lstrip(text, IntWhitespace), IntWhitespace)

\* The literal after its sign ("+" is 43, "-" is 45) is taken off.
Unsigned(text) ==
    LET t == Literal(text)
    IN  IF Len(t) > 0 /\ t[1] \in {43, 45} THEN Tail(t) ELSE t

\* The digits with the underscores (95) between them removed.
Digits(text) == SelectSeq(Unsigned(text), LAMBDA c : c # 95)

\* sys.int_max_str_digits as the interpreter starts with: int() of a text
\* with more digits raises ValueError (the sign, the blanks and the
\* underscores do not count, leading zeros do).
int_max_str_digits == 4300

\* int(text) accepts blanks around an optional sign and decimal digits of
\* any script, at most int_max_str_digits of them, with single underscores
\* between digits; any other text raises ValueError.
IsInt(text) ==
    LET u == Unsigned(text)
    IN  /\ Len(u) > 0
        /\ Len(Digits(text)) <= int_max_str_digits
        /\ \A i \in 1..Len(u) : IsDigit(u[i]) \/ u[i] = 95
        /\ u[1] # 95 /\ u[Len(u)] # 95
        /\ \A i \in 1..(Len(u) - 1) : ~(u[i] = 95 /\ u[i + 1] = 95)

RECURSIVE DecimalValue(_)
DecimalValue(digits) ==
    IF Len(digits) = 0 THEN 0
    ELSE 10 * DecimalValue(SubSeq(digits, 1, Len(digits) - 1))
             + DigitVal(digits[Len(digits)])

int(text) ==
    LET t == Literal(text)
        value == DecimalValue(Digits(text))
    IN  IF Len(t) > 0 /\ t[1] = 45 THEN 0 - value ELSE value

\* s[lo:hi] of a Python list: both ends are clamped to the list, a negative
\* end counts from the back.
PyIndex(n, i) == IF i < 0 THEN (IF i + n < 0 THEN 0 ELSE i + n)
                 ELSE (IF i > n THEN n ELSE i)

PySlice(s, lo, hi) == SubSeq(s, PyIndex(Len(s), lo) + 1, PyIndex(Len(s), hi))

Last(s) == s[Len(s)]

(***************************************************************************)
(* 1-batch_processing.py, 2-lazy_paginate.py                               *)
(* A generator is a record: pc ("idle": created, not started; "suspended": *)
(* at its yield; "done": returned; "failed": left by an exception), the    *)
(* local offset, out (the chunks handed to the consumer so far), fetched   *)
(* (every window read from the table so far, with the offset used) and     *)
(* stops (how many times next() answered StopIteration).                   *)
(***************************************************************************)
NewGenerator ==
    [pc |-> "idle", offset |-> 0, out |-> <<>>, fetched |-> <<>>, stops |-> 0]

\* 1-based offset: the window starts one row late.
paginate_users_one_based(page_size, offset) ==
    PySlice(users_db, offset + 1, offset + 1 + page_size)

\* A window one row shorter than asked.
paginate_users_short(page_size, offset) ==
    PySlice(users_db, offset, offset + page_size - 1)

paginate_users(page_size, offset) == PySlice(users_db, offset, offset + page_size)

\* The orders in which the store may hand the rows of user_data to a
\* statement that has no ORDER BY: scan[i] is the place in the table of the
\* i-th row handed over.
ScanOrders == Permutations(1..Len(users_db))

\* 3-main.py's paginate_users.  connection is what seed.connect_to_prodev()
\* returned: "None" when it could not connect, and then connection.cursor
\* raises AttributeError.  LIMIT and OFFSET take unsigned constants: a
\* negative one is a syntax error of the statement, which cursor.execute
\* raises, and connection.close() is not reached.  Otherwise the rows are
\* those the store hands over after the first offset ones of its scan, at
\* most page_size of them, and the connection is closed.
paginate_users_sql(page_size, offset, connection, scan) ==
    IF connection = "None"
    THEN [raised |-> "AttributeError", closed |-> FALSE, rows |-> <<>>]
    ELSE IF page_size < 0 \/ offset < 0
    THEN [raised |-> "ProgrammingError", closed |-> FALSE, rows |-> <<>>]
    ELSE [raised |-> "", closed |-> TRUE,
          rows |-> [i \in 1..(IF Len(users_db) - offset < 0 THEN 0
                              ELSE IF Len(users_db) - offset < page_size
                              THEN Len(users_db) - offset
                              ELSE page_size)
                      |-> users_db[scan[offset + i]]]]

\* Ends at the first short batch, without yielding it.
stream_users_in_batches_drop_short(g) ==
    IF g.pc = "done" THEN [g EXCEPT !.stops = @ + 1]
    ELSE LET offset == IF g.pc = "idle" THEN 0 ELSE g.offset + batch_size
             batch == PySlice(users_db, offset, offset + batch_size)
             log == Append(g.fetched, [offset |-> offset, rows |-> batch])
         IN  IF Len(batch) < batch_size \/ batch = <<>>
             THEN [g EXCEPT !.pc = "done", !.offset = offset, !.fetched = log,
                            !.stops = @ + 1]
             ELSE [g EXCEPT !.pc = "suspended", !.offset = offset, !.fetched = log,
                            !.out = Append(@, batch)]

\* Yields the empty batch before it ends.
stream_users_in_batches_yield_empty(g) ==
    IF g.pc = "done" THEN [g EXCEPT !.stops = @ + 1]
    ELSE LET offset == IF g.pc = "idle" THEN 0 ELSE g.offset + batch_size
             batch == PySlice(users_db, offset, offset + batch_size)
             log == Append(g.fetched, [offset |-> offset, rows |-> batch])
         IN  [g EXCEPT !.pc = IF batch = <<>> THEN "done" ELSE "suspended",
                       !.offset = offset, !.fetched = log,
                       !.out = Append(@, batch)]

\* Advances the offset by the number of rows the batch held.
stream_users_in_batches_advance_by_len(g) ==
    IF g.pc = "done" THEN [g EXCEPT !.stops = @ + 1]
    ELSE LET offset == IF g.pc = "idle" THEN 0 ELSE g.offset + Len(Last(g.out))
             batch == PySlice(users_db, offset, offset + batch_size)
             log == Append(g.fetched, [offset |-> offset, rows |-> batch])
         IN  IF batch = <<>>
             THEN [g EXCEPT !.pc = "done", !.offset = offset, !.fetched = log,
                            !.stops = @ + 1]
             ELSE [g EXCEPT !.pc = "suspended", !.offset = offset, !.fetched = log,
                            !.out = Append(@, batch)]

\* Reads one row more than the batch size.
stream_users_in_batches_wide(g) ==
    IF g.pc = "done" THEN [g EXCEPT !.stops = @ + 1]
    ELSE LET offset == IF g.pc = "idle" THEN 0 ELSE g.offset + batch_size
             batch == PySlice(users_db, offset,
                              offset + batch_size + (IF batch_size > 0 THEN 1 ELSE 0))
             log == Append(g.fetched, [offset |-> offset, rows |-> batch])
         IN  IF batch = <<>>
             THEN [g EXCEPT !.pc = "done", !.offset = offset, !.fetched = log,
                            !.stops = @ + 1]
             ELSE [g EXCEPT !.pc = "suspended", !.offset = offset, !.fetched = log,
                            !.out = Append(@, batch)]

stream_users_in_batches(g) ==
    IF g.pc = "done" THEN [g EXCEPT !.stops = @ + 1]
    ELSE LET offset == IF g.pc = "idle" THEN 0 ELSE g.offset + batch_size
             batch == PySlice(users_db, offset, offset + batch_size)
             log == Append(g.fetched, [offset |-> offset, rows |-> batch])
         IN  IF batch = <<>>
             THEN [g EXCEPT !.pc = "done", !.offset = offset, !.fetched = log,
                            !.stops = @ + 1]
             ELSE [g EXCEPT !.pc = "suspended", !.offset = offset, !.fetched = log,
                            !.out = Append(@, batch)]

\* A finished generator that starts over on the next pull.
lazy_paginate_restart(g) ==
    LET offset == IF g.pc \in {"idle", "done"} THEN 0 ELSE g.offset + batch_size
        page == paginate_users(batch_size, offset)
        log == Append(g.fetched, [offset |-> offset, rows |-> page])
    IN  IF page = <<>>
        THEN [g EXCEPT !.pc = "done", !.offset = offset, !.fetched = log,
                       !.stops = @ + 1]
        ELSE [g EXCEPT !.pc = "suspended", !.offset = offset, !.fetched = log,
                       !.out = Append(@, page)]

\* Ends at a short page without yielding it.
lazy_paginate_stop_early(g) ==
    IF g.pc = "done" THEN [g EXCEPT !.stops = @ + 1]
    ELSE LET offset == IF g.pc = "idle" THEN 0 ELSE g.offset + batch_size
             page == paginate_users(batch_size, offset)
             log == Append(g.fetched, [offset |-> offset, rows |-> page])
         IN  IF Len(page) < batch_size \/ page = <<>>
             THEN [g EXCEPT !.pc = "done", !.offset = offset, !.fetched = log,
                            !.stops = @ + 1]
             ELSE [g EXCEPT !.pc = "suspended", !.offset = offset, !.fetched = log,
                            !.out = Append(@, page)]

lazy_paginate(g) ==
    IF g.pc = "done" THEN [g EXCEPT !.stops = @ + 1]
    ELSE LET offset == IF g.pc = "idle" THEN 0 ELSE g.offset + batch_size
             page == paginate_users(batch_size, offset)
             log == Append(g.fetched, [offset |-> offset, rows |-> page])
         IN  IF page = <<>>
             THEN [g EXCEPT !.pc = "done", !.offset = offset, !.fetched = log,
                            !.stops = @ + 1]
             ELSE [g EXCEPT !.pc = "suspended", !.offset = offset, !.fetched = log,
                            !.out = Append(@, page)]

\* batch_processing drives its own stream_users_in_batches generator (inner)
\* and yields, for each batch, the rows with int(age) > 25.  int() raising on
\* a row leaves batch_processing by that exception.
NewBatchProcessing ==
    [pc |-> "idle", inner |-> NewGenerator, out |-> <<>>, stops |-> 0]

\* Counts the rows that passed the filter as the rows consumed.
batch_processing_by_filtered(g) ==
    IF g.pc \in {"done", "failed"} THEN [g EXCEPT !.stops = @ + 1]
    ELSE LET inner == stream_users_in_batches(g.inner)
         IN  IF inner.pc = "done"
             THEN [g EXCEPT !.pc = "done", !.inner = inner, !.stops = @ + 1]
             ELSE LET batch == Last(inner.out)
                      filtered_users == SelectSeq(batch, LAMBDA user : int(user.age) > 25)
                  IN  IF \E user \in {batch[i] : i \in 1..Len(batch)} : ~IsInt(user.age)
                      THEN [g EXCEPT !.pc = "failed", !.inner = inner]
                      ELSE [g EXCEPT !.pc = "suspended",
                                     !.inner = [inner EXCEPT !.offset =
                                         @ - batch_size + Len(filtered_users)],
                                     !.out = Append(@, filtered_users)]

batch_processing(g) ==
    IF g.pc \in {"done", "failed"} THEN [g EXCEPT !.stops = @ + 1]
    ELSE LET inner == stream_users_in_batches(g.inner)
         IN  IF inner.pc = "done"
             THEN [g EXCEPT !.pc = "done", !.inner = inner, !.stops = @ + 1]
             ELSE LET batch == Last(inner.out)
                      filtered_users == SelectSeq(batch, LAMBDA user : int(user.age) > 25)
                  IN  IF \E user \in {batch[i] : i \in 1..Len(batch)} : ~IsInt(user.age)
                      THEN [g EXCEPT !.pc = "failed", !.inner = inner]
                      ELSE [g EXCEPT !.pc = "suspended", !.inner = inner,
                                     !.out = Append(@, filtered_users)]

(***************************************************************************)
(* The consumer's pulls.  A pull on a finished generator is StopIteration  *)
(* again; the model lets the consumer try it MaxExtraPulls times.          *)
(***************************************************************************)
MayPull(g) == g.pc \in {"done", "failed"} => g.stops <= MaxExtraPulls

Pull_stream_users_in_batches ==
    /\ MayPull(sb)
    /\ sb' = stream_users_in_batches(sb)
    /\ UNCHANGED <<users_db, batch_size, lp, bp, notBatch>>

Pull_lazy_paginate ==
    /\ MayPull(lp)
    /\ lp' = lazy_paginate(lp)
    /\ UNCHANGED <<users_db, batch_size, sb, bp, notBatch>>

Pull_batch_processing ==
    /\ MayPull(bp)
    /\ bp' = batch_processing(bp)
    /\ UNCHANGED <<users_db, batch_size, sb, lp, notBatch>>

InitBatch ==
    /\ users_db \in UserTables(BatchAgeFields)
    /\ batch_size \in 0..MaxBatch
    /\ sb = NewGenerator
    /\ lp = NewGenerator
    /\ bp = NewBatchProcessing

\* The scripts are separate programs: a specification of one of them leaves
\* the others' state as it is before they run.
ParkedBatch ==
    /\ users_db = <<>>
    /\ batch_size = 0
    /\ sb = NewGenerator
    /\ lp = NewGenerator
    /\ bp = NewBatchProcessing

NextBatch ==
    \/ Pull_stream_users_in_batches
    \/ Pull_lazy_paginate
    \/ Pull_batch_processing

(***************************************************************************)
(* 4-stream_ages.py                                                        *)
(* avg is a call of calculate_average_age: pc ("idle": not called;         *)
(* "loop": in the for loop over stream_user_ages(); "done": returned;      *)
(* "failed": left by the exception int() raised), next (how many rows      *)
(* stream_user_ages has yielded), the locals total_age and count, and the  *)
(* value returned (den = 0: none yet).  A quotient of Python's / is kept   *)
(* as the fraction in lowest terms that the float is the nearest to;       *)
(* divided tells whether the call evaluated total_age / count.             *)
(***************************************************************************)
\* A text of one digit more than int() takes: "1" int_max_str_digits + 1
\* times.
TooManyDigits == [i \in 1..(int_max_str_digits + 1) |-> 49]

\* The age fields of the average's tables: "28", "+34" in Arabic-Indic
\* digits, "4_2", and two texts that are no integer: "5" after a file
\* separator (28), and the text of too many digits.
AverageAgeFields ==
    { <<50, 56>>, <<43, 1635, 1636>>, <<52, 95, 50>>, <<28, 53>>, TooManyDigits }

RECURSIVE GCD(_, _)
GCD(a, b) == IF b = 0 THEN a ELSE GCD(b, a % b)

\* a // b: the quotient rounded down to an integer.
FloorDiv(a, b) == [num |-> a \div b, den |-> 1]

\* a / b, for a >= 0 and b > 0.  (The sums of the model's ages are far
\* inside the range of a float: the division does not raise OverflowError.)
TrueDiv(a, b) == [num |-> a \div GCD(a, b), den |-> b \div GCD(a, b)]

NewAverage ==
    [pc |-> "idle", next |-> 0, total_age |-> 0, count |-> 0,
     result |-> [num |-> 0, den |-> 0], divided |-> FALSE]

\* One pass of `for age in stream_user_ages()`: the generator yields
\* int(user['age']) of the next row, and the loop body adds it.
Average_Loop ==
    /\ avg.pc \in {"idle", "loop"}
    /\ avg.next < Len(ages_db)
    /\ avg' = IF IsInt(ages_db[avg.next + 1].age)
              THEN [avg EXCEPT !.pc = "loop", !.next = @ + 1,
                               !.total_age = @ + int(ages_db[avg.next + 1].age),
                               !.count = @ + 1]
              ELSE [avg EXCEPT !.pc = "failed"]
    /\ UNCHANGED <<ages_db, notAges>>

\* Without the test of count: total_age / count whatever count is, which
\* raises ZeroDivisionError for an empty table.
calculate_average_age_unguarded(a) ==
    IF a.count = 0
    THEN [a EXCEPT !.pc = "failed", !.divided = TRUE]
    ELSE [a EXCEPT !.pc = "done", !.result = TrueDiv(a.total_age, a.count),
                   !.divided = TRUE]

\* stream_user_ages is exhausted: the loop ends and the function returns.
calculate_average_age(a) ==
    IF a.count = 0
    THEN [a EXCEPT !.pc = "done", !.result = [num |-> 0, den |-> 1]]
    ELSE [a EXCEPT !.pc = "done", !.result = TrueDiv(a.total_age, a.count),
                   !.divided = TRUE]

Average_Return ==
    /\ avg.pc \in {"idle", "loop"}
    /\ avg.next = Len(ages_db)
    /\ avg' = calculate_average_age(avg)
    /\ UNCHANGED <<ages_db, notAges>>

InitAges ==
    /\ ages_db \in UserTables(AverageAgeFields)
    /\ avg = NewAverage

ParkedAges ==
    /\ ages_db = <<>>
    /\ avg = NewAverage

NextAges == Average_Loop \/ Average_Return

(***************************************************************************)
(* 0-stream_users.py                                                       *)
(* su is a stream_users() generator: pc ("idle", "suspended" at its yield, *)
(* "finished"), its locals connection ("None", "connected", "lost": the    *)
(* store went away, is_connected() is False, "closed") and cursor ("None", *)
(* "open", "closed"), pos (rows fetched), out (rows yielded), end (how the *)
(* consumer saw it finish: "StopIteration", "raised": an exception came    *)
(* out of next(), "closed": the consumer closed it), failed (the store     *)
(* raised Error into the scan), printed (the messages printed) and stops.  *)
(* lib is what the store library answers during one resume: connect,       *)
(* cursor, execute, fetchone and cleanup (cursor.nextset() /               *)
(* cursor.close()) are "ok" or "Error"; is_connected is the answer of      *)
(* connection.is_connected() right after connect; lost tells whether a     *)
(* failure took the connection.                                            *)
(***************************************************************************)
LibraryAnswers ==
    [connect : {"ok", "Error"}, is_connected : BOOLEAN, cursor : {"ok", "Error"},
     execute : {"ok", "Error"},
     fetchone : {"ok", "Error"}, cleanup : {"ok", "Error"}, lost : BOOLEAN]

NewStreamUsers ==
    [pc |-> "idle", connection |-> "None", cursor |-> "None", pos |-> 0,
     out |-> <<>>, end |-> "None", failed |-> FALSE, printed |-> <<>>, stops |-> 0]

\* The finally block.  The cursor's cleanup can raise Error while rows of the
\* result are unread or the connection is lost; the except in the finally
\* block prints it, and what follows in the try is skipped.
stream_users_finally(g, lib, unread) ==
    IF g.cursor = "open" /\ lib.cleanup = "Error" /\ (unread \/ g.connection = "lost")
    THEN [g EXCEPT !.printed = Append(@, "Error during cleanup")]
    ELSE [g EXCEPT !.cursor = IF @ = "open" THEN "closed" ELSE @,
                   !.connection = IF @ = "connected" THEN "closed" ELSE @]

\* except Error as e: print, then the finally block, then the generator
\* returns.
stream_users_except(g, lib, unread) ==
    stream_users_finally(
        [g EXCEPT !.pc = "finished", !.end = "StopIteration", !.failed = TRUE,
                  !.printed = Append(@, "Database error"),
                  !.connection = IF @ = "connected" /\ lib.lost THEN "lost" ELSE @],
        lib, unread)

\* One pass of the while loop, from cursor.fetchone().
stream_users_fetchone(g, lib) ==
    IF lib.fetchone = "Error" THEN stream_users_except(g, lib, TRUE)
    ELSE IF g.pos < Len(user_data)
    THEN [g EXCEPT !.pc = "suspended", !.pos = @ + 1,
                   !.out = Append(@, user_data[g.pos + 1])]
    ELSE stream_users_finally([g EXCEPT !.pc = "finished", !.end = "StopIteration"],
                              lib, FALSE)

\* A finished generator that runs the query again on the next pull.
stream_users_rerun(g, lib) ==
    IF g.pc = "suspended" THEN stream_users_fetchone(g, lib)
    ELSE IF lib.connect = "Error" THEN stream_users_except(g, lib, FALSE)
    ELSE IF ~lib.is_connected
    THEN stream_users_finally([g EXCEPT !.pc = "finished", !.end = "StopIteration",
                                        !.connection = "lost"],
                              lib, FALSE)
    ELSE IF lib.cursor = "Error"
    THEN stream_users_except([g EXCEPT !.connection = "connected"], lib, FALSE)
    ELSE IF lib.execute = "Error"
    THEN stream_users_except([g EXCEPT !.connection = "connected", !.cursor = "open"],
                             lib, FALSE)
    ELSE stream_users_fetchone([g EXCEPT !.connection = "connected", !.cursor = "open",
                                         !.pos = 0],
                               lib)

\* next(generator).
stream_users(g, lib) ==
    IF g.pc = "finished" THEN [g EXCEPT !.stops = @ + 1]
    ELSE IF g.pc = "suspended" THEN stream_users_fetchone(g, lib)
    ELSE IF lib.connect = "Error" THEN stream_users_except(g, lib, FALSE)
    ELSE IF ~lib.is_connected
    THEN stream_users_finally([g EXCEPT !.pc = "finished", !.end = "StopIteration",
                                        !.connection = "lost"],
                              lib, FALSE)
    ELSE IF lib.cursor = "Error"
    THEN stream_users_except([g EXCEPT !.connection = "connected"], lib, FALSE)
    ELSE IF lib.execute = "Error"
    THEN stream_users_except([g EXCEPT !.connection = "connected", !.cursor = "open"],
                             lib, FALSE)
    ELSE stream_users_fetchone([g EXCEPT !.connection = "connected", !.cursor = "open"],
                               lib)

\* generator.close(), also what dropping the generator does (islice ends
\* after 6 rows): GeneratorExit at the yield, which runs the finally block.
stream_users_close(g, lib) ==
    IF g.pc = "finished" THEN g
    ELSE IF g.pc = "idle" THEN [g EXCEPT !.pc = "finished", !.end = "closed"]
    ELSE stream_users_finally([g EXCEPT !.pc = "finished", !.end = "closed"], lib, TRUE)

Pull_stream_users ==
    /\ su.pc = "finished" => su.stops <= MaxExtraPulls
    /\ \E lib \in LibraryAnswers : su' = stream_users(su, lib)
    /\ UNCHANGED <<user_data, notStream>>

Close_stream_users ==
    /\ su.pc # "finished"
    /\ \E lib \in LibraryAnswers : su' = stream_users_close(su, lib)
    /\ UNCHANGED <<user_data, notStream>>

InitStream ==
    /\ user_data \in { [i \in 1..n |-> [user_id |-> i]] : n \in 0..MaxRows }
    /\ su = NewStreamUsers

ParkedStream ==
    /\ user_data = <<>>
    /\ su = NewStreamUsers

NextStream == Pull_stream_users \/ Close_stream_users

(***************************************************************************)
(* 0-databaseconnection.py, 1-execute.py, 4-cache_query.py                 *)
(* A use of a scoped helper is a record: pc ("init": not entered; "body":  *)
(* inside the scope; "done": the statement or call is over), conn and      *)
(* cursor ("None", "open", "closed"), raised (an exception came out of     *)
(* it), and the numbers of connections it has opened and closed over its   *)
(* uses so far.  A `with` statement calls __exit__ only when __enter__     *)
(* returned.                                                               *)
(***************************************************************************)
NewScope ==
    [pc |-> "init", conn |-> "None", cursor |-> "None", raised |-> FALSE,
     opened |-> 0, closed |-> 0, uses |-> 0]

\* DatabaseConnection.__enter__: sqlite3.connect opens the connection or raises.
DatabaseConnection_enter(h, connect_ok) ==
    IF connect_ok
    THEN [h EXCEPT !.pc = "body", !.conn = "open", !.opened = @ + 1]
    ELSE [h EXCEPT !.pc = "done", !.raised = TRUE]

\* DatabaseConnection.__exit__, called when the body ends or raises.
DatabaseConnection_exit(h, body_ok) ==
    IF h.conn # "None"
    THEN [h EXCEPT !.pc = "done", !.conn = "closed", !.closed = @ + 1,
                   !.raised = ~body_ok]
    ELSE [h EXCEPT !.pc = "done", !.raised = ~body_ok]

\* ExecuteQuery.__enter__: connect, cursor, execute, fetchall.  An exception
\* of execute leaves __enter__, and the with statement, at once.
ExecuteQuery_enter(h, connect_ok, execute_ok) ==
    IF ~connect_ok THEN [h EXCEPT !.pc = "done", !.raised = TRUE]
    ELSE IF ~execute_ok
    THEN [h EXCEPT !.pc = "done", !.conn = "open", !.cursor = "open",
                   !.opened = @ + 1, !.raised = TRUE]
    ELSE [h EXCEPT !.pc = "body", !.conn = "open", !.cursor = "open",
                   !.opened = @ + 1]

\* ExecuteQuery.__exit__.
ExecuteQuery_exit(h, body_ok) ==
    LET c == [h EXCEPT !.cursor = IF @ # "None" THEN "closed" ELSE @]
    IN  IF c.conn # "None"
        THEN [c EXCEPT !.pc = "done", !.conn = "closed", !.closed = @ + 1,
                       !.raised = ~body_ok]
        ELSE [c EXCEPT !.pc = "done", !.raised = ~body_ok]

\* with_db_connection's wrapper up to the call of func: sqlite3.connect.
with_db_connection_connect(h, connect_ok) ==
    IF connect_ok
    THEN [h EXCEPT !.pc = "body", !.conn = "open", !.opened = @ + 1]
    ELSE [h EXCEPT !.pc = "done", !.raised = TRUE]

\* func(conn, ...) returns or raises; the finally clause closes conn.
with_db_connection_finally(h, func_ok) ==
    [h EXCEPT !.pc = "done", !.conn = "closed", !.closed = @ + 1, !.raised = ~func_ok]

\* The statement or call is made again: __init__ (or the wrapper's entry)
\* starts from no connection.
Again(h) ==
    [h EXCEPT !.pc = "init", !.conn = "None", !.cursor = "None", !.raised = FALSE,
              !.uses = @ + 1]

DatabaseConnection_Enter ==
    /\ dc.pc = "init"
    /\ \E connect_ok \in BOOLEAN : dc' = DatabaseConnection_enter(dc, connect_ok)
    /\ UNCHANGED <<eq, wd, notScope>>

DatabaseConnection_Exit ==
    /\ dc.pc = "body"
    /\ \E body_ok \in BOOLEAN : dc' = DatabaseConnection_exit(dc, body_ok)
    /\ UNCHANGED <<eq, wd, notScope>>

DatabaseConnection_Again ==
    /\ dc.pc = "done"
    /\ dc.uses < MaxUses
    /\ dc' = Again(dc)
    /\ UNCHANGED <<eq, wd, notScope>>

ExecuteQuery_Enter ==
    /\ eq.pc = "init"
    /\ \E connect_ok \in BOOLEAN, execute_ok \in BOOLEAN :
           eq' = ExecuteQuery_enter(eq, connect_ok, execute_ok)
    /\ UNCHANGED <<dc, wd, notScope>>

ExecuteQuery_Exit ==
    /\ eq.pc = "body"
    /\ \E body_ok \in BOOLEAN : eq' = ExecuteQuery_exit(eq, body_ok)
    /\ UNCHANGED <<dc, wd, notScope>>

ExecuteQuery_Again ==
    /\ eq.pc = "done"
    /\ eq.uses < MaxUses
    /\ eq' = Again(eq)
    /\ UNCHANGED <<dc, wd, notScope>>

With_db_connection_Call ==
    /\ wd.pc = "init"
    /\ \E connect_ok \in BOOLEAN : wd' = with_db_connection_connect(wd, connect_ok)
    /\ UNCHANGED <<dc, eq, notScope>>

With_db_connection_Return ==
    /\ wd.pc = "body"
    /\ \E func_ok \in BOOLEAN : wd' = with_db_connection_finally(wd, func_ok)
    /\ UNCHANGED <<dc, eq, notScope>>

With_db_connection_Again ==
    /\ wd.pc = "done"
    /\ wd.uses < MaxUses
    /\ wd' = Again(wd)
    /\ UNCHANGED <<dc, eq, notScope>>

InitScope ==
    /\ dc = NewScope
    /\ eq = NewScope
    /\ wd = NewScope

ParkedScope == InitScope

NextScope ==
    \/ DatabaseConnection_Enter
    \/ DatabaseConnection_Exit
    \/ DatabaseConnection_Again
    \/ ExecuteQuery_Enter
    \/ ExecuteQuery_Exit
    \/ ExecuteQuery_Again
    \/ With_db_connection_Call
    \/ With_db_connection_Return
    \/ With_db_connection_Again
(***************************************************************************)
(* 3-concurrent.py                                                         *)
(* A task is a record: pc, db (its own connection: "None", "open",         *)
(* "closed") and result.  pc is the await at which the task is suspended:  *)
(* "new" (scheduled, or in aiosqlite.connect), "connected" (in             *)
(* db.execute), "executed" (in cursor.fetchall), "fetched" (result bound,  *)
(* in the cursor.close of the inner `async with` that `return` leaves),    *)
(* "returning" (in the db.close of the outer one), "failing" and           *)
(* "unwinding" (in the same two closes, with an exception on its way out), *)
(* or that the task has ended: "done" (returned) or "raised".  Every await *)
(* is a place where the event loop may run the other task.  fc is the call *)
(* of fetch_concurrently: pc ("idle", "waiting" in gather, "returned",     *)
(* "raised"), results, completed (the tasks in the order they ended) and   *)
(* cancelled (the tasks asyncio.run has cancelled).                        *)
(***************************************************************************)
\* The ages of the users table: below, at and above the query's 40.
UserAges == {30, 40, 50}

UsersTables ==
    UNION { { [i \in 1..n |-> [id |-> i, age |-> f[i]]] : f \in [1..n -> UserAges] }
            : n \in 0..MaxRows }

NewTask == [pc |-> "new", db |-> "None", result |-> <<>>]

\* SELECT * FROM users
SelectAllUsers == users

\* SELECT * FROM users WHERE age > 40
SelectOlderUsers == SelectSeq(users, LAMBDA row : row.age > 40)

\* One step of a fetch coroutine, from one await to the next; rows is what
\* its query selects, ok whether the awaited call succeeded.  An exception
\* leaves the `async with` blocks the task is in, innermost first, and each
\* awaits its close on the way; an exception of a close takes the place of
\* the one on its way.
async_fetch(t, rows, ok) ==
    IF t.pc = "new"
    THEN IF ok THEN [t EXCEPT !.pc = "connected", !.db = "open"]
         ELSE [t EXCEPT !.pc = "raised"]
    ELSE IF t.pc = "connected"
    THEN IF ok THEN [t EXCEPT !.pc = "executed"]
         ELSE [t EXCEPT !.pc = "unwinding"]
    ELSE IF t.pc = "executed"
    THEN IF ok THEN [t EXCEPT !.pc = "fetched", !.result = rows]
         ELSE [t EXCEPT !.pc = "failing"]
    ELSE IF t.pc = "fetched"
    THEN IF ok THEN [t EXCEPT !.pc = "returning"]
         ELSE [t EXCEPT !.pc = "unwinding", !.result = <<>>]
    ELSE IF t.pc = "returning"
    THEN IF ok THEN [t EXCEPT !.pc = "done", !.db = "closed"]
         ELSE [t EXCEPT !.pc = "raised", !.db = "closed", !.result = <<>>]
    ELSE IF t.pc = "failing"
    THEN [t EXCEPT !.pc = "unwinding"]
    ELSE [t EXCEPT !.pc = "raised", !.db = "closed"]

\* task.cancel(): CancelledError is raised in the task at the await where
\* it is suspended, and takes the way out of any other exception.
cancel(t) == async_fetch(t, <<>>, FALSE)

async_fetch_users(t, ok) == async_fetch(t, SelectAllUsers, ok)

async_fetch_older_users(t, ok) == async_fetch(t, SelectOlderUsers, ok)

Ended(t) == t.pc \in {"done", "raised"}

NoteEnded(call, name, t) ==
    IF Ended(t) THEN [call EXCEPT !.completed = Append(@, name)] ELSE call

\* The list gather hands back in the order the tasks ended.
gather_as_completed(call, first, second) ==
    [call EXCEPT !.pc = "returned",
                 !.results = IF call.completed[1] = "older"
                             THEN <<second.result, first.result>>
                             ELSE <<first.result, second.result>>]

\* asyncio.gather(first, second) once both have returned: their results in
\* the order of the arguments.
gather(call, first, second) ==
    [call EXCEPT !.pc = "returned", !.results = <<first.result, second.result>>]

Fetch_concurrently_Call ==
    /\ fc.pc = "idle"
    /\ fc' = [fc EXCEPT !.pc = "waiting"]
    /\ UNCHANGED <<users, t_all, t_older, notConc>>

\* The event loop resumes a task that has not ended, while gather waits and
\* after fetch_concurrently has ended with the other task's exception.
Async_fetch_users_Step ==
    /\ fc.pc \in {"waiting", "raised"}
    /\ ~Ended(t_all)
    /\ \E ok \in BOOLEAN :
           /\ t_all' = async_fetch_users(t_all, ok)
           /\ fc' = NoteEnded(fc, "all", t_all')
    /\ UNCHANGED <<users, t_older, notConc>>

Async_fetch_older_users_Step ==
    /\ fc.pc \in {"waiting", "raised"}
    /\ ~Ended(t_older)
    /\ \E ok \in BOOLEAN :
           /\ t_older' = async_fetch_older_users(t_older, ok)
           /\ fc' = NoteEnded(fc, "older", t_older')
    /\ UNCHANGED <<users, t_all, notConc>>

\* gather resumes fetch_concurrently with the list of results ...
Fetch_concurrently_Return ==
    /\ fc.pc = "waiting"
    /\ t_all.pc = "done"
    /\ t_older.pc = "done"
    /\ fc' = gather(fc, t_all, t_older)
    /\ UNCHANGED <<users, t_all, t_older, notConc>>

\* ... or with the exception of the first task that raised; the other task
\* may have run on in between.
Fetch_concurrently_Raise ==
    /\ fc.pc = "waiting"
    /\ (t_all.pc = "raised" \/ t_older.pc = "raised")
    /\ fc' = [fc EXCEPT !.pc = "raised"]
    /\ UNCHANGED <<users, t_all, t_older, notConc>>

\* asyncio.run(fetch_concurrently()) after the exception: the task that is
\* left is cancelled, once, and runs on to its end through the closes of its
\* `async with` blocks.
Asyncio_run_Cancel_users ==
    /\ fc.pc = "raised"
    /\ ~Ended(t_all)
    /\ "all" \notin fc.cancelled
    /\ t_all' = cancel(t_all)
    /\ fc' = NoteEnded([fc EXCEPT !.cancelled = @ \cup {"all"}], "all", t_all')
    /\ UNCHANGED <<users, t_older, notConc>>

Asyncio_run_Cancel_older_users ==
    /\ fc.pc = "raised"
    /\ ~Ended(t_older)
    /\ "older" \notin fc.cancelled
    /\ t_older' = cancel(t_older)
    /\ fc' = NoteEnded([fc EXCEPT !.cancelled = @ \cup {"older"}], "older", t_older')
    /\ UNCHANGED <<users, t_all, notConc>>

InitConc ==
    /\ users \in UsersTables
    /\ t_all = NewTask
    /\ t_older = NewTask
    /\ fc = [pc |-> "idle", results |-> <<>>, completed |-> <<>>, cancelled |-> {}]

ParkedConc ==
    /\ users = <<>>
    /\ t_all = NewTask
    /\ t_older = NewTask
    /\ fc = [pc |-> "idle", results |-> <<>>, completed |-> <<>>, cancelled |-> {}]

NextConc ==
    \/ Fetch_concurrently_Call
    \/ Async_fetch_users_Step
    \/ Async_fetch_older_users_Step
    \/ Fetch_concurrently_Return
    \/ Fetch_concurrently_Raise
    \/ Asyncio_run_Cancel_users
    \/ Asyncio_run_Cancel_older_users

(***************************************************************************)
(* 0x03-Unittests_and_integration_tests/client.py                          *)
(* gh is the instance: org_name, has_cache_org / cache_org (the attribute  *)
(* _cache_org that memoize sets) and ops (expressions evaluated so far).   *)
(* A URL is the sequence of the pieces it is formatted from.  ret is the   *)
(* value of the last expression: op, kind ("method", "payload", "list",    *)
(* "TypeError"), the payload or the list of names, and the license asked.  *)
(***************************************************************************)
OrgNames == {"google", "abc"}

LicenseKeys == {"apache-2.0", "mit"}

\* A repo's "license" is None or a record with a key.
RepoLicenses == {"None"} \cup LicenseKeys

ReposPayloads ==
    UNION { { [i \in 1..n |-> [name |-> i, license |-> f[i]]] : f \in [1..n -> RepoLicenses] }
            : n \in 0..MaxRepos }

\* ORG_URL.format(org=org_name)
ORG_URL(org_name) == <<"https://api.github.com/orgs/", org_name>>

NoPayload == [login |-> "", repos_url |-> <<>>]

\* What the API answers for an organisation.
OrgPayload(org_name) == [login |-> org_name, repos_url |-> Append(ORG_URL(org_name), "/repos")]

NoValue == [op |-> "", kind |-> "None", payload |-> NoPayload, names |-> <<>>, license |-> "None"]

\* get_json(url): the JSON behind the URL.
get_json(url) ==
    IF Len(url) = 2
    THEN [NoValue EXCEPT !.kind = "payload", !.payload = OrgPayload(url[2])]
    ELSE [NoValue EXCEPT !.kind = "list", !.names = repos_payload]

\* memoize(fn) returns the plain function `memoized`, so the class attribute
\* org is a method: the expression client.org is a bound method and runs
\* nothing.
org_attribute(client) == [NoValue EXCEPT !.op = "org", !.kind = "method"]

\* client.org(): memoized(self), the state of the instance afterwards.
memoized_self(client) ==
    IF ~client.has_cache_org
    THEN [client EXCEPT !.has_cache_org = TRUE, !.cache_org = OrgPayload(client.org_name)]
    ELSE client

\* self.org["repos_url"]: subscripting whatever self.org evaluates to.
public_repos_url(client) ==
    IF org_attribute(client).kind = "method"
    THEN [NoValue EXCEPT !.op = "_public_repos_url", !.kind = "TypeError"]
    ELSE [NoValue EXCEPT !.op = "_public_repos_url", !.kind = "str",
                         !.payload = org_attribute(client).payload]

\* has_license(repo, license_key): `assert license_key is not None` comes
\* first; public_repos never calls it with None.
has_license(repo, license_key) ==
    IF license_key = "None" THEN "AssertionError"
    ELSE IF repo.license = "None" THEN FALSE
    ELSE repo.license = license_key

\* The list comprehension of public_repos over the payload.
public_repos(json_payload, license) ==
    LET keep(repo) == license = "None" \/ has_license(repo, license)
        kept == SelectSeq(json_payload, keep)
    IN  [i \in 1..Len(kept) |-> kept[i].name]

Evaluate(client) == [client EXCEPT !.ops = @ + 1]

\* result = client.org
Org_Access ==
    /\ gh.ops < MaxCalls
    /\ ret' = org_attribute(gh)
    /\ gh' = Evaluate(gh)
    /\ UNCHANGED <<repos_payload, get_json_calls, notClient>>

\* result = client.org()
Org_Call ==
    /\ gh.ops < MaxCalls
    /\ gh' = Evaluate(memoized_self(gh))
    /\ get_json_calls' = IF gh.has_cache_org THEN get_json_calls
                         ELSE Append(get_json_calls, ORG_URL(gh.org_name))
    /\ ret' = [NoValue EXCEPT !.op = "org()", !.kind = "payload", !.payload = gh'.cache_org]
    /\ UNCHANGED <<repos_payload, notClient>>

\* result = client._public_repos_url
Public_repos_url_Access ==
    /\ gh.ops < MaxCalls
    /\ ret' = public_repos_url(gh)
    /\ gh' = Evaluate(gh)
    /\ UNCHANGED <<repos_payload, get_json_calls, notClient>>

\* result = client.public_repos(license): the argument of get_json is
\* evaluated first, and get_json is called only if that did not raise.
Public_repos_Call ==
    /\ gh.ops < MaxCalls
    /\ \E license \in RepoLicenses :
         LET url == public_repos_url(gh)
         IN  IF url.kind = "TypeError"
             THEN /\ ret' = [url EXCEPT !.op = "public_repos"]
                  /\ UNCHANGED get_json_calls
             ELSE /\ ret' = [NoValue EXCEPT !.op = "public_repos", !.kind = "list",
                                 !.names = public_repos(get_json(url.payload.repos_url).names, license)]
                  /\ get_json_calls' = Append(get_json_calls, url.payload.repos_url)
    /\ gh' = Evaluate(gh)
    /\ UNCHANGED <<repos_payload, notClient>>

\* test_public_repos: the same call while _public_repos_url is patched with
\* a PropertyMock that returns the URL.
Public_repos_Patched ==
    /\ gh.ops < MaxCalls
    /\ \E license \in RepoLicenses :
         LET url == OrgPayload(gh.org_name).repos_url
         IN  /\ ret' = [NoValue EXCEPT !.op = "public_repos (patched)", !.kind = "list",
                            !.names = public_repos(get_json(url).names, license),
                            !.license = license]
             /\ get_json_calls' = Append(get_json_calls, url)
    /\ gh' = Evaluate(gh)
    /\ UNCHANGED <<repos_payload, notClient>>

InitClient ==
    /\ \E org_name \in OrgNames :
           gh = [org_name |-> org_name, has_cache_org |-> FALSE, cache_org |-> NoPayload, ops |-> 0]
    /\ repos_payload \in ReposPayloads
    /\ get_json_calls = <<>>
    /\ ret = NoValue

ParkedClient ==
    /\ gh = [org_name |-> "", has_cache_org |-> FALSE, cache_org |-> NoPayload, ops |-> 0]
    /\ repos_payload = <<>>
    /\ get_json_calls = <<>>
    /\ ret = NoValue

NextClient ==
    \/ Org_Access
    \/ Org_Call
    \/ Public_repos_url_Access
    \/ Public_repos_Call
    \/ Public_repos_Patched

(***************************************************************************)
(* python-decorators-0x01/4-cache_query.py                                 *)
(* query_cache is a function from the keys stored so far to results.  cq   *)
(* counts, per query text, the executions that returned (ran) and that     *)
(* raised (raisedBy), and keeps the last call: its text, how the text was  *)
(* passed, the key, whether the cache answered (hit), whether it raised    *)
(* and what it returned; conn is the connection of with_db_connection.     *)
(***************************************************************************)
\* The script's query, a query sqlite3 rejects, and the empty text.
QueryTexts == {"SELECT * FROM users", "SELECT * FROM missing", ""}

\* fetch_users_with_cache(query=text) or fetch_users_with_cache(text).
CallForms == {"keyword", "positional"}

\* query = kwargs.get("query") or (args[1] if len(args) > 1 else None)
\* where args is (conn,) for a keyword call and (conn, text) otherwise.
CacheKey(form, text) ==
    IF form = "keyword"
    THEN IF text # "" THEN text ELSE "None"
    ELSE text

\* cursor.execute(query); cursor.fetchall()
fetch_users(text, table) ==
    IF text = "SELECT * FROM users" THEN [raised |-> FALSE, rows |-> table]
    ELSE IF text = "" THEN [raised |-> FALSE, rows |-> <<>>]
    ELSE [raised |-> TRUE, rows |-> <<>>]

Store(cache, key, result) ==
    [k \in DOMAIN cache \cup {key} |-> IF k = key THEN result ELSE cache[k]]

\* A wrapper that returns the result without storing it.
cache_query_no_store(cache, form, text, table) ==
    LET key == CacheKey(form, text)
        run == fetch_users(text, table)
    IN  IF key \in DOMAIN cache
        THEN [cache |-> cache, hit |-> TRUE, raised |-> FALSE, result |-> cache[key]]
        ELSE [cache |-> cache, hit |-> FALSE, raised |-> run.raised, result |-> run.rows]

\* cache_query's wrapper: the dictionary afterwards and what the call gave.
cache_query(cache, form, text, table) ==
    LET key == CacheKey(form, text)
        run == fetch_users(text, table)
    IN  IF key \in DOMAIN cache
        THEN [cache |-> cache, hit |-> TRUE, raised |-> FALSE, result |-> cache[key]]
        ELSE IF run.raised
        THEN [cache |-> cache, hit |-> FALSE, raised |-> TRUE, result |-> <<>>]
        ELSE [cache |-> Store(cache, key, run.rows), hit |-> FALSE,
              raised |-> FALSE, result |-> run.rows]

NewCalls ==
    [calls |-> 0,
     ran |-> [t \in QueryTexts |-> 0],
     raisedBy |-> [t \in QueryTexts |-> 0],
     conn |-> "None",
     last |-> [text |-> "", form |-> "", key |-> "", hit |-> FALSE,
               raised |-> FALSE, result |-> <<>>]]

\* One call of fetch_users_with_cache: with_db_connection opens a connection,
\* runs the cached function and closes the connection in its finally clause.
Fetch_users_with_cache ==
    /\ cq.calls < MaxCalls
    /\ \E form \in CallForms, text \in QueryTexts :
         LET r == cache_query(query_cache, form, text, cache_table)
         IN  /\ query_cache' = r.cache
             /\ cq' = [calls |-> cq.calls + 1,
                       ran |-> IF ~r.hit /\ ~r.raised
                               THEN [cq.ran EXCEPT ![text] = @ + 1] ELSE cq.ran,
                       raisedBy |-> IF ~r.hit /\ r.raised
                                    THEN [cq.raisedBy EXCEPT ![text] = @ + 1] ELSE cq.raisedBy,
                       conn |-> "closed",
                       last |-> [text |-> text, form |-> form, key |-> CacheKey(form, text),
                                 hit |-> r.hit, raised |-> r.raised, result |-> r.result]]
    /\ UNCHANGED <<cache_table, notCache>>

\* Another program inserts a row into users between two calls.
Users_Insert ==
    /\ Len(cache_table) < MaxRows
    /\ cache_table' = Append(cache_table, Len(cache_table) + 1)
    /\ UNCHANGED <<query_cache, cq, notCache>>

InitCache ==
    /\ query_cache = <<>>
    /\ cache_table \in {<<>>, <<1>>}
    /\ cq = NewCalls

ParkedCache ==
    /\ query_cache = <<>>
    /\ cache_table = <<>>
    /\ cq = NewCalls

NextCache ==
    \/ Fetch_users_with_cache
    \/ Users_Insert

(***************************************************************************)
(* Django-signals_orm-0x04/messaging: models.py and signals.py             *)
(* A Message row has sender, receiver, content, is_read, edited and        *)
(* edited_at (0 for NULL, otherwise the time of the edit); an instance is  *)
(* a row in memory with its pk (0 for None).  Time is the number of        *)
(* operations so far plus one.  A save sends pre_save, writes the row and  *)
(* sends post_save; the receivers of signals.py run inside it.             *)
(***************************************************************************)
MessageUsers == {"alice", "bob"}

MessageContents == {"Original content", "Edited content"}

\* timezone.now()
Now == audit.ops + 1

\* Message(sender=..., receiver=..., content=...): the field defaults.
NewMessage(sender, receiver, content) ==
    [pk |-> 0, sender |-> sender, receiver |-> receiver, content |-> content,
     is_read |-> FALSE, edited |-> FALSE, edited_at |-> 0]

Row(instance) ==
    [sender |-> instance.sender, receiver |-> instance.receiver,
     content |-> instance.content, is_read |-> instance.is_read,
     edited |-> instance.edited, edited_at |-> instance.edited_at]

\* pre_save receiver: the instance and the MessageHistory table afterwards.
log_message_edit(instance, table, history, now) ==
    IF instance.pk # 0 /\ instance.pk \in 1..Len(table)
          /\ table[instance.pk].content # instance.content
    THEN [instance |-> [instance EXCEPT !.edited = TRUE, !.edited_at = now],
          history |-> Append(history,
                             [message |-> instance.pk,
                              old_content |-> table[instance.pk].content,
                              edited_at |-> now,
                              edited_by |-> instance.sender])]
    ELSE [instance |-> instance, history |-> history]

NotificationFor(instance) ==
    [user |-> instance.receiver, message |-> instance.pk,
     notification_type |-> "message", is_read |-> FALSE]

\* A receiver that notifies on every save.
create_notification_on_every_save(instance, created, table) ==
    Append(table, NotificationFor(instance))

\* post_save receiver: the Notification table afterwards.
create_notification_on_new_message(instance, created, table) ==
    IF created THEN Append(table, NotificationFor(instance)) ELSE table

\* message.history.count()
get_edit_count(pk) ==
    Len(SelectSeq(message_history, LAMBDA h : h.message = pk))

Operation(a) == [a EXCEPT !.ops = @ + 1]

\* Message.objects.create(sender=..., receiver=..., content=...)
Message_Create ==
    /\ audit.ops < MaxOps
    /\ Len(messages) < MaxMessages
    /\ \E sender \in MessageUsers, receiver \in MessageUsers, content \in MessageContents :
         LET pre == log_message_edit(NewMessage(sender, receiver, content),
                                     messages, message_history, Now)
             saved == [pre.instance EXCEPT !.pk = Len(messages) + 1]
         IN  /\ message_history' = pre.history
             /\ messages' = Append(messages, Row(saved))
             /\ instances' = Append(instances, saved)
             /\ notifications' = create_notification_on_new_message(saved, TRUE, notifications)
             /\ audit' = [Operation(audit) EXCEPT !.created_for[receiver] = @ + 1,
                                                  !.changes = Append(@, 0)]
    /\ UNCHANGED notMessaging

\* message.content = content
Message_SetContent ==
    /\ audit.ops < MaxOps
    /\ \E pk \in 1..Len(instances), content \in MessageContents :
         /\ instances[pk].content # content
         /\ instances' = [instances EXCEPT ![pk].content = content]
    /\ audit' = Operation(audit)
    /\ UNCHANGED <<messages, message_history, notifications, notMessaging>>

\* message.save(): every field of the instance is written.
Message_Save ==
    /\ audit.ops < MaxOps
    /\ \E pk \in 1..Len(instances) :
         LET pre == log_message_edit(instances[pk], messages, message_history, Now)
         IN  /\ message_history' = pre.history
             /\ instances' = [instances EXCEPT ![pk] = pre.instance]
             /\ messages' = [messages EXCEPT ![pk] = Row(pre.instance)]
             /\ notifications' = create_notification_on_new_message(pre.instance, FALSE, notifications)
             /\ audit' = [Operation(audit) EXCEPT
                             !.changes[pk] = IF messages[pk].content # pre.instance.content
                                             THEN @ + 1 ELSE @]
    /\ UNCHANGED notMessaging

\* message.mark_as_read(): save(update_fields=['is_read']) writes is_read
\* only, and sends the same signals.
Message_mark_as_read ==
    /\ audit.ops < MaxOps
    /\ \E pk \in 1..Len(instances) :
         IF ~instances[pk].is_read
         THEN LET pre == log_message_edit([instances[pk] EXCEPT !.is_read = TRUE],
                                          messages, message_history, Now)
              IN  /\ message_history' = pre.history
                  /\ instances' = [instances EXCEPT ![pk] = pre.instance]
                  /\ messages' = [messages EXCEPT ![pk].is_read = TRUE]
                  /\ notifications' = create_notification_on_new_message(pre.instance, FALSE, notifications)
         ELSE UNCHANGED <<messages, message_history, notifications, instances>>
    /\ audit' = Operation(audit)
    /\ UNCHANGED notMessaging

\* message.mark_as_unread(): the same save, with is_read False.
Message_mark_as_unread ==
    /\ audit.ops < MaxOps
    /\ \E pk \in 1..Len(instances) :
         IF instances[pk].is_read
         THEN LET pre == log_message_edit([instances[pk] EXCEPT !.is_read = FALSE],
                                          messages, message_history, Now)
              IN  /\ message_history' = pre.history
                  /\ instances' = [instances EXCEPT ![pk] = pre.instance]
                  /\ messages' = [messages EXCEPT ![pk].is_read = FALSE]
                  /\ notifications' = create_notification_on_new_message(pre.instance, FALSE, notifications)
         ELSE UNCHANGED <<messages, message_history, notifications, instances>>
    /\ audit' = Operation(audit)
    /\ UNCHANGED notMessaging

\* Message.unread_messages.mark_all_as_read(user): one UPDATE of the unread
\* rows of the receiver; no signal is sent and no instance is touched.
Message_mark_all_as_read ==
    /\ audit.ops < MaxOps
    /\ \E user \in MessageUsers :
         messages' = [pk \in 1..Len(messages) |->
                         IF messages[pk].receiver = user /\ ~messages[pk].is_read
                         THEN [messages[pk] EXCEPT !.is_read = TRUE]
                         ELSE messages[pk]]
    /\ audit' = Operation(audit)
    /\ UNCHANGED <<message_history, notifications, instances, notMessaging>>

\* batch_mark_read(request): the same UPDATE, of the rows whose id is among
\* the ids of the form.
Message_batch_mark_read ==
    /\ audit.ops < MaxOps
    /\ \E user \in MessageUsers, message_ids \in SUBSET (1..Len(messages)) :
         /\ message_ids # {}
         /\ messages' = [pk \in 1..Len(messages) |->
                            IF pk \in message_ids /\ messages[pk].receiver = user
                                  /\ ~messages[pk].is_read
                            THEN [messages[pk] EXCEPT !.is_read = TRUE]
                            ELSE messages[pk]]
    /\ audit' = Operation(audit)
    /\ UNCHANGED <<message_history, notifications, instances, notMessaging>>

\* Message.objects.get(id=pk), get_object_or_404(Message, id=pk): a new
\* instance with the stored fields.
get_object_or_404(pk) ==
    [pk |-> pk, sender |-> messages[pk].sender, receiver |-> messages[pk].receiver,
     content |-> messages[pk].content, is_read |-> messages[pk].is_read,
     edited |-> messages[pk].edited, edited_at |-> messages[pk].edited_at]

\* mark_message_read(request, message_id) and
\* mark_message_unread(request, message_id): the view gets the message from
\* the table and calls mark_as_read or mark_as_unread on it; the instances
\* other callers hold are not touched.
Message_mark_message(is_read) ==
    /\ audit.ops < MaxOps
    /\ \E pk \in 1..Len(messages) :
         LET message == get_object_or_404(pk)
         IN  IF message.is_read # is_read
             THEN LET pre == log_message_edit([message EXCEPT !.is_read = is_read],
                                              messages, message_history, Now)
                  IN  /\ message_history' = pre.history
                      /\ messages' = [messages EXCEPT ![pk].is_read = is_read]
                      /\ notifications' = create_notification_on_new_message(pre.instance, FALSE, notifications)
             ELSE UNCHANGED <<messages, message_history, notifications>>
    /\ audit' = Operation(audit)
    /\ UNCHANGED <<instances, notMessaging>>

Message_mark_message_read == Message_mark_message(TRUE)

Message_mark_message_unread == Message_mark_message(FALSE)

\* edit_message(request, message_id): the view gets the message from the
\* table; when request.user is its sender and the form's content is not
\* empty it sets the content and saves every field.  An id that no row
\* has, another user or an empty content change nothing.
Message_edit_message ==
    /\ audit.ops < MaxOps
    /\ \E user \in MessageUsers, message_id \in 1..MaxMessages,
          new_content \in MessageContents \cup {""} :
         IF /\ message_id \in 1..Len(messages)
            /\ user = messages[message_id].sender
            /\ new_content # ""
         THEN LET message == [get_object_or_404(message_id) EXCEPT !.content = new_content]
                  pre == log_message_edit(message, messages, message_history, Now)
              IN  /\ message_history' = pre.history
                  /\ messages' = [messages EXCEPT ![message_id] = Row(pre.instance)]
                  /\ notifications' = create_notification_on_new_message(pre.instance, FALSE, notifications)
                  /\ audit' = [Operation(audit) EXCEPT
                                  !.changes[message_id] =
                                      IF messages[message_id].content # new_content
                                      THEN @ + 1 ELSE @]
         ELSE /\ UNCHANGED <<messages, message_history, notifications>>
              /\ audit' = Operation(audit)
    /\ UNCHANGED <<instances, notMessaging>>

\* MessageAdmin.save_model(request, obj, form, change): obj.save() of the
\* object the admin form made.  With change it is a stored row with the
\* form's sender, receiver, content and is_read; without it is a new
\* message of them, which the save creates.
MessageAdmin_save_model ==
    /\ audit.ops < MaxOps
    /\ \E change \in BOOLEAN, sender \in MessageUsers, receiver \in MessageUsers,
          content \in MessageContents, is_read \in BOOLEAN :
         IF change
         THEN \E pk \in 1..Len(messages) :
                LET obj == [get_object_or_404(pk) EXCEPT
                               !.sender = sender, !.receiver = receiver,
                               !.content = content, !.is_read = is_read]
                    pre == log_message_edit(obj, messages, message_history, Now)
                IN  /\ message_history' = pre.history
                    /\ messages' = [messages EXCEPT ![pk] = Row(pre.instance)]
                    /\ notifications' = create_notification_on_new_message(pre.instance, FALSE, notifications)
                    /\ instances' = instances
                    /\ audit' = [Operation(audit) EXCEPT
                                    !.changes[pk] = IF messages[pk].content # content
                                                    THEN @ + 1 ELSE @]
         ELSE /\ Len(messages) < MaxMessages
              /\ LET obj == [NewMessage(sender, receiver, content) EXCEPT !.is_read = is_read]
                     pre == log_message_edit(obj, messages, message_history, Now)
                     saved == [pre.instance EXCEPT !.pk = Len(messages) + 1]
                 IN  /\ message_history' = pre.history
                     /\ messages' = Append(messages, Row(saved))
                     /\ instances' = Append(instances, saved)
                     /\ notifications' = create_notification_on_new_message(saved, TRUE, notifications)
                     /\ audit' = [Operation(audit) EXCEPT !.created_for[receiver] = @ + 1,
                                                          !.changes = Append(@, 0)]
    /\ UNCHANGED notMessaging

\* message.refresh_from_db()
Message_refresh_from_db ==
    /\ audit.ops < MaxOps
    /\ \E pk \in 1..Len(instances) :
         /\ Row(instances[pk]) # messages[pk]
         /\ instances' = [instances EXCEPT ![pk] = get_object_or_404(pk)]
    /\ audit' = Operation(audit)
    /\ UNCHANGED <<messages, message_history, notifications, notMessaging>>

NoAudit == [ops |-> 0, created_for |-> [u \in MessageUsers |-> 0], changes |-> <<>>]

InitMessaging ==
    /\ messages = <<>>
    /\ message_history = <<>>
    /\ notifications = <<>>
    /\ instances = <<>>
    /\ audit = NoAudit

ParkedMessaging ==
    /\ messages = <<>>
    /\ message_history = <<>>
    /\ notifications = <<>>
    /\ instances = <<>>
    /\ audit = NoAudit

NextMessaging ==
    \/ Message_Create
    \/ Message_SetContent
    \/ Message_Save
    \/ Message_mark_as_read
    \/ Message_mark_as_unread
    \/ Message_mark_all_as_read
    \/ Message_batch_mark_read
    \/ Message_mark_message_read
    \/ Message_mark_message_unread
    \/ Message_edit_message
    \/ MessageAdmin_save_model
    \/ Message_refresh_from_db

(***************************************************************************)
(* paginate_users called directly, with any integers.  pw holds the        *)
(* arguments the caller uses, pages (what each call of                     *)
(* 2-lazy_paginate.py's paginate_users returned, in the order of the       *)
(* calls) and sql (how each call of 3-main.py's paginate_users ended).     *)
(* The ages play no part in a window: the table's rows all have age "20".  *)
(***************************************************************************)
MaxWindowCalls == 2

PageSizes == (0 - MaxBatch)..MaxBatch

Offsets == (0 - MaxRows)..(MaxRows + 1)

NoWindow == [page_size |-> 0, offset |-> 0, pages |-> <<>>, sql |-> <<>>]

\* page = paginate_users(page_size, offset), of 2-lazy_paginate.py
Paginate_users_Call ==
    /\ Len(pw.pages) + Len(pw.sql) < MaxWindowCalls
    /\ pw' = [pw EXCEPT !.pages = Append(@, paginate_users(pw.page_size, pw.offset))]
    /\ UNCHANGED notWindow

\* rows = paginate_users(page_size, offset), of 3-main.py
Paginate_users_sql_Call ==
    /\ Len(pw.pages) + Len(pw.sql) < MaxWindowCalls
    /\ \E connection \in {"None", "connected"}, scan \in ScanOrders :
           pw' = [pw EXCEPT !.sql = Append(@, paginate_users_sql(pw.page_size, pw.offset,
                                                                connection, scan))]
    /\ UNCHANGED notWindow

LoadedBatch ==
    /\ users_db \in UserTables({ <<50, 48>> })
    /\ batch_size = 0
    /\ sb = NewGenerator
    /\ lp = NewGenerator
    /\ bp = NewBatchProcessing

InitWindow ==
    pw \in {[NoWindow EXCEPT !.page_size = page_size, !.offset = offset] :
               page_size \in PageSizes, offset \in Offsets}

ParkedWindow == pw = NoWindow

NextWindow ==
    \/ Paginate_users_Call
    \/ Paginate_users_sql_Call

(***************************************************************************)
(* Django-signals_orm-0x04/messaging/models.py: threads of messages        *)
(* Messages are numbered by pk in the order they were created, which is    *)
(* also the order of their timestamps; a reply is created with the pk of   *)
(* an existing message as its parent_message.                              *)
(***************************************************************************)
ThreadMessages == 1..Len(parent_message)

\* self.replies...order_by('timestamp'): the direct replies, oldest first.
get_replies(m) ==
    LET direct == {r \in ThreadMessages : parent_message[r] = m}
        RECURSIVE Sorted(_)
        Sorted(S) == IF S = {} THEN <<>>
                     ELSE LET first == CHOOSE x \in S : \A y \in S : x <= y
                          IN  <<first>> \o Sorted(S \ {first})
    IN  Sorted(direct)

\* Only the direct replies.
get_direct_replies_only(m) == get_replies(m)

RECURSIVE get_all_replies_recursive(_)
get_all_replies_recursive(m) ==
    LET RECURSIVE Loop(_, _)
        \* the for loop over get_replies(): replies so far, replies to go
        Loop(replies, todo) ==
            IF todo = <<>> THEN replies
            ELSE Loop(Append(replies, todo[1]) \o get_all_replies_recursive(todo[1]),
                      Tail(todo))
    IN  Loop(<<>>, get_replies(m))

get_total_reply_count(m) == Len(get_all_replies_recursive(m))

RECURSIVE get_thread_root(_)
get_thread_root(m) ==
    IF parent_message[m] # 0 THEN get_thread_root(parent_message[m]) ELSE m

\* A message that starts a thread.
Thread_Start ==
    /\ Len(parent_message) < MaxThread
    /\ parent_message' = Append(parent_message, 0)
    /\ UNCHANGED <<tq, notThread>>

\* Message.objects.create(..., parent_message=parent)
Thread_Reply ==
    /\ Len(parent_message) < MaxThread
    /\ \E parent \in ThreadMessages : parent_message' = Append(parent_message, parent)
    /\ UNCHANGED <<tq, notThread>>

\* message.get_all_replies_recursive()
Thread_get_all_replies_recursive ==
    /\ \E m \in ThreadMessages :
           tq' = [op |-> "get_all_replies_recursive", of |-> m,
                  list |-> get_all_replies_recursive(m), root |-> 0]
    /\ UNCHANGED <<parent_message, notThread>>

\* message.get_thread_root()
Thread_get_thread_root ==
    /\ \E m \in ThreadMessages :
           tq' = [op |-> "get_thread_root", of |-> m, list |-> <<>>,
                  root |-> get_thread_root(m)]
    /\ UNCHANGED <<parent_message, notThread>>

NoQuery == [op |-> "", of |-> 0, list |-> <<>>, root |-> 0]

InitThread ==
    /\ parent_message = <<>>
    /\ tq = NoQuery

ParkedThread ==
    /\ parent_message = <<>>
    /\ tq = NoQuery

NextThread ==
    \/ Thread_Start
    \/ Thread_Reply
    \/ Thread_get_all_replies_recursive
    \/ Thread_get_thread_root

(***************************************************************************)
(* Django-signals_orm-0x04/messaging: deleting a user                      *)
(* tables holds the rows of Message (pk, sender, receiver, parent_message, *)
(* 0 for None), Notification (pk, user, message) and MessageHistory (pk,   *)
(* message, edited_by, "None" for NULL).  user.delete() first deletes what *)
(* the foreign keys cascade to and sets the SET_NULL columns, then sends   *)
(* post_delete, which runs cleanup_user_data.                              *)
(***************************************************************************)
AccountNames == {"alice", "bob", "carol"}

NoTables == [messages |-> <<>>, notifications |-> <<>>, history |-> <<>>]

Pks(rows) == {rows[i].pk : i \in 1..Len(rows)}

\* The messages of S and every reply under them (parent_message CASCADE).
RECURSIVE WithReplies(_, _)
WithReplies(t, S) ==
    LET more == {t.messages[i].pk : i \in {j \in 1..Len(t.messages) :
                                              t.messages[j].parent_message \in S}}
    IN  IF more \subseteq S THEN S ELSE WithReplies(t, S \cup more)

\* QuerySet.delete() of the messages with pk in S: the rows, their replies,
\* and the notifications and history entries that point to them.
DeleteMessages(t, S) ==
    LET gone == WithReplies(t, S)
    IN  [messages |-> SelectSeq(t.messages, LAMBDA m : m.pk \notin gone),
         notifications |-> SelectSeq(t.notifications, LAMBDA n : n.message \notin gone),
         history |-> SelectSeq(t.history, LAMBDA h : h.message \notin gone)]

SentBy(t, user) == {t.messages[i].pk : i \in {j \in 1..Len(t.messages) : t.messages[j].sender = user}}

ReceivedBy(t, user) == {t.messages[i].pk : i \in {j \in 1..Len(t.messages) : t.messages[j].receiver = user}}

DeleteNotificationsOf(t, user) ==
    [t EXCEPT !.notifications = SelectSeq(@, LAMBDA n : n.user # user)]

ForgetEditor(t, user) ==
    [t EXCEPT !.history =
        [i \in 1..Len(@) |-> IF @[i].edited_by = user
                             THEN [@[i] EXCEPT !.edited_by = "None"] ELSE @[i]]]

\* What user.delete() does before post_delete is sent: on_delete=CASCADE of
\* Message.sender, Message.receiver and Notification.user, SET_NULL of
\* MessageHistory.edited_by.
user_delete_cascade(t, user) ==
    ForgetEditor(DeleteNotificationsOf(
        DeleteMessages(t, SentBy(t, user) \cup ReceivedBy(t, user)), user), user)

\* The post_delete receiver, statement by statement.
cleanup_user_data(t, instance) ==
    LET sent == DeleteMessages(t, SentBy(t, instance))
        received == DeleteMessages(sent, ReceivedBy(sent, instance))
        notified == DeleteNotificationsOf(received, instance)
    IN  ForgetEditor(notified, instance)

\* Message.objects.create(sender=..., receiver=..., parent_message=...),
\* and the notification its post_save receiver creates.
CreateMessage(t, sender, receiver, parent) ==
    LET pk == Len(t.messages) + 1
    IN  [t EXCEPT
            !.messages = Append(@, [pk |-> pk, sender |-> sender,
                                    receiver |-> receiver,
                                    parent_message |-> parent]),
            !.notifications = Append(@, [pk |-> Len(@) + 1, user |-> receiver,
                                         message |-> pk])]

\* Message.objects.create called directly: any two users, with no parent
\* (0) or as a reply to any stored message.
Account_Message_Create ==
    /\ deleted_user = "None"
    /\ Len(tables.messages) < MaxMessages
    /\ \E sender \in accounts, receiver \in accounts,
          parent \in {0} \cup Pks(tables.messages) :
         tables' = CreateMessage(tables, sender, receiver, parent)
    /\ UNCHANGED <<accounts, before, deleted_user, notAccount>>

\* send_reply(request, parent_message_id): request.user is the sender or
\* the receiver of the parent, and the reply goes to the other of the two
\* (to the parent's receiver when the user is not the parent's receiver).
Account_Message_Reply ==
    /\ deleted_user = "None"
    /\ Len(tables.messages) < MaxMessages
    /\ \E i \in 1..Len(tables.messages), user \in accounts :
         LET parent == tables.messages[i]
             receiver == IF user = parent.receiver
                         THEN parent.sender ELSE parent.receiver
         IN  /\ user \in {parent.sender, parent.receiver}
             /\ tables' = CreateMessage(tables, user, receiver, parent.pk)
    /\ UNCHANGED <<accounts, before, deleted_user, notAccount>>

\* MessageHistory.objects.create(message=..., edited_by=...): the pre_save
\* receiver passes the message's sender, the call takes any user.
Account_History_Create ==
    /\ deleted_user = "None"
    /\ Len(tables.history) < MaxMessages
    /\ \E i \in 1..Len(tables.messages), edited_by \in accounts :
         tables' = [tables EXCEPT
             !.history = Append(@, [pk |-> Len(@) + 1, message |-> tables.messages[i].pk,
                                    edited_by |-> edited_by])]
    /\ UNCHANGED <<accounts, before, deleted_user, notAccount>>

\* delete_user: user.delete()
Account_User_Delete ==
    /\ deleted_user = "None"
    /\ \E user \in accounts :
         /\ before' = tables
         /\ tables' = cleanup_user_data(user_delete_cascade(tables, user), user)
         /\ accounts' = accounts \ {user}
         /\ deleted_user' = user
    /\ UNCHANGED notAccount

InitAccount ==
    /\ accounts = AccountNames
    /\ tables = NoTables
    /\ before = NoTables
    /\ deleted_user = "None"

ParkedAccount ==
    /\ accounts = {}
    /\ tables = NoTables
    /\ before = NoTables
    /\ deleted_user = "None"

NextAccount ==
    \/ Account_Message_Create
    \/ Account_Message_Reply
    \/ Account_History_Create
    \/ Account_User_Delete

(***************************************************************************)
(* Django-signals_orm-0x04/messaging/models.py: the read flags             *)
(* A row is what the table holds; an object is the instance a caller has   *)
(* in memory, which a queryset update does not touch.                      *)
(***************************************************************************)
ReadUsers == {"user1", "user2"}

\* mark_as_read with the test removed: it saves every time.
mark_as_read_always_saves(is_read) ==
    [is_read |-> TRUE, saved |-> TRUE]

\* Notification.mark_as_read and Message.mark_as_read, on an object whose
\* attribute is is_read: the attribute afterwards, and whether
\* save(update_fields=['is_read']) was called.
mark_as_read(is_read) ==
    IF ~is_read THEN [is_read |-> TRUE, saved |-> TRUE]
    ELSE [is_read |-> is_read, saved |-> FALSE]

\* Message.mark_as_unread, on an object whose attribute is is_read.
mark_as_unread(is_read) ==
    IF is_read THEN [is_read |-> FALSE, saved |-> TRUE]
    ELSE [is_read |-> is_read, saved |-> FALSE]

\* queryset.update(is_read=value): one UPDATE of the rows picked, which
\* sends no signal and touches no object in memory.
update_is_read(rows, picked, value) ==
    [i \in 1..Len(rows) |-> IF i \in picked THEN [rows[i] EXCEPT !.is_read = value]
                            ELSE rows[i]]

\* Message.objects.filter(id__in=ids, receiver=user, is_read=False)
received_unread(rows, ids, user) ==
    {i \in ids \cap (1..Len(rows)) : rows[i].receiver = user /\ ~rows[i].is_read}

\* cls.objects.filter(user=user, is_read=False).update(is_read=True)
mark_all_as_read(rows, user) ==
    [i \in 1..Len(rows) |-> IF rows[i].user = user /\ ~rows[i].is_read
                            THEN [rows[i] EXCEPT !.is_read = TRUE] ELSE rows[i]]

\* cls.objects.filter(user=user, is_read=False).count()
get_unread_count(rows, user) ==
    Len(SelectSeq(rows, LAMBDA n : n.user = user /\ ~n.is_read))

\* rd is the last call: for the calls that mark one object read, its target,
\* whether it saved and what is_read was before; for mark_all_as_read, the
\* user; for any other call, its name.
NoRead == [op |-> "", target |-> 0, user |-> "", saved |-> FALSE, was_read |-> FALSE]

\* Notification.objects.create(user=...)
Read_Notification_Create ==
    /\ Len(read_rows.notifications) < MaxNotifications
    /\ \E user \in ReadUsers :
           read_rows' = [read_rows EXCEPT
               !.notifications = Append(@, [user |-> user, is_read |-> FALSE])]
    /\ read_objs' = [read_objs EXCEPT !.notifications = Append(@, FALSE)]
    /\ rd' = [NoRead EXCEPT !.op = "create"]
    /\ UNCHANGED notRead

\* Message.objects.create(receiver=...): post_save runs
\* create_notification_on_new_message, which stores an unread notification
\* for the receiver.
Read_Message_Create ==
    /\ Len(read_rows.messages) < MaxReadMessages
    /\ Len(read_rows.notifications) < MaxNotifications
    /\ \E receiver \in ReadUsers :
           read_rows' = [read_rows EXCEPT
               !.messages = Append(@, [receiver |-> receiver, is_read |-> FALSE]),
               !.notifications = Append(@, [user |-> receiver, is_read |-> FALSE])]
    /\ read_objs' = [read_objs EXCEPT !.messages = Append(@, FALSE),
                                      !.notifications = Append(@, FALSE)]
    /\ rd' = [NoRead EXCEPT !.op = "create"]
    /\ UNCHANGED notRead

\* notification.mark_as_read()
Read_Notification_mark_as_read ==
    /\ \E i \in 1..Len(read_objs.notifications) :
         LET r == mark_as_read(read_objs.notifications[i])
         IN  /\ read_objs' = [read_objs EXCEPT !.notifications[i] = r.is_read]
             /\ read_rows' = IF r.saved
                             THEN [read_rows EXCEPT !.notifications[i].is_read = r.is_read]
                             ELSE read_rows
             /\ rd' = [op |-> "Notification.mark_as_read", target |-> i, user |-> "",
                       saved |-> r.saved, was_read |-> read_objs.notifications[i]]
    /\ UNCHANGED notRead

\* message.mark_as_read()
Read_Message_mark_as_read ==
    /\ \E i \in 1..Len(read_objs.messages) :
         LET r == mark_as_read(read_objs.messages[i])
         IN  /\ read_objs' = [read_objs EXCEPT !.messages[i] = r.is_read]
             /\ read_rows' = IF r.saved
                             THEN [read_rows EXCEPT !.messages[i].is_read = r.is_read]
                             ELSE read_rows
             /\ rd' = [op |-> "Message.mark_as_read", target |-> i, user |-> "",
                       saved |-> r.saved, was_read |-> read_objs.messages[i]]
    /\ UNCHANGED notRead

\* message.mark_as_unread()
Read_Message_mark_as_unread ==
    /\ \E i \in 1..Len(read_objs.messages) :
         LET r == mark_as_unread(read_objs.messages[i])
         IN  /\ read_objs' = [read_objs EXCEPT !.messages[i] = r.is_read]
             /\ read_rows' = IF r.saved
                             THEN [read_rows EXCEPT !.messages[i].is_read = r.is_read]
                             ELSE read_rows
             /\ rd' = [NoRead EXCEPT !.op = "Message.mark_as_unread"]
    /\ UNCHANGED notRead

\* mark_notification_read(request, notification_id): the view gets the
\* notification from the table and calls mark_as_read on it; an object some
\* other caller holds is not touched.
Read_mark_notification_read ==
    /\ \E i \in 1..Len(read_rows.notifications) :
         LET notification == read_rows.notifications[i]
             r == mark_as_read(notification.is_read)
         IN  /\ read_rows' = IF r.saved
                             THEN [read_rows EXCEPT !.notifications[i].is_read = r.is_read]
                             ELSE read_rows
             /\ rd' = [op |-> "mark_notification_read", target |-> i,
                       user |-> notification.user,
                       saved |-> r.saved, was_read |-> notification.is_read]
    /\ UNCHANGED <<read_objs, notRead>>

\* mark_message_read(request, message_id), by the receiver of the message.
Read_mark_message_read ==
    /\ \E i \in 1..Len(read_rows.messages) :
         LET message == read_rows.messages[i]
             r == mark_as_read(message.is_read)
         IN  /\ read_rows' = IF r.saved
                             THEN [read_rows EXCEPT !.messages[i].is_read = r.is_read]
                             ELSE read_rows
             /\ rd' = [op |-> "mark_message_read", target |-> i,
                       user |-> message.receiver,
                       saved |-> r.saved, was_read |-> message.is_read]
    /\ UNCHANGED <<read_objs, notRead>>

\* mark_message_unread(request, message_id), by the receiver of the message.
Read_mark_message_unread ==
    /\ \E i \in 1..Len(read_rows.messages) :
         LET message == read_rows.messages[i]
             r == mark_as_unread(message.is_read)
         IN  /\ read_rows' = IF r.saved
                             THEN [read_rows EXCEPT !.messages[i].is_read = r.is_read]
                             ELSE read_rows
             /\ rd' = [NoRead EXCEPT !.op = "mark_message_unread"]
    /\ UNCHANGED <<read_objs, notRead>>

\* Message.unread_messages.mark_all_as_read(user)
Read_Messages_mark_all_as_read ==
    /\ \E user \in ReadUsers :
         /\ read_rows' = [read_rows EXCEPT
                !.messages = update_is_read(@, received_unread(@, 1..Len(@), user), TRUE)]
         /\ rd' = [NoRead EXCEPT !.op = "Message.mark_all_as_read"]
    /\ UNCHANGED <<read_objs, notRead>>

\* batch_mark_read(request): the ids of the form, for request.user.
Read_batch_mark_read ==
    /\ \E user \in ReadUsers, message_ids \in SUBSET (1..Len(read_rows.messages)) :
         /\ read_rows' = [read_rows EXCEPT
                !.messages = update_is_read(@, received_unread(@, message_ids, user), TRUE)]
         /\ rd' = [NoRead EXCEPT !.op = "batch_mark_read"]
    /\ UNCHANGED <<read_objs, notRead>>

\* NotificationAdmin.mark_as_read(request, queryset) and mark_as_unread
Read_Admin_mark ==
    /\ \E queryset \in SUBSET (1..Len(read_rows.notifications)), is_read \in BOOLEAN :
         /\ queryset # {}
         /\ read_rows' = [read_rows EXCEPT
                !.notifications = update_is_read(@, queryset, is_read)]
         /\ rd' = [NoRead EXCEPT !.op = IF is_read THEN "admin.mark_as_read"
                                       ELSE "admin.mark_as_unread"]
    /\ UNCHANGED <<read_objs, notRead>>

\* Notification.mark_all_as_read(user)
Read_mark_all_as_read ==
    /\ \E user \in ReadUsers :
         /\ read_rows' = [read_rows EXCEPT !.notifications = mark_all_as_read(@, user)]
         /\ rd' = [op |-> "mark_all_as_read", target |-> 0, user |-> user,
                   saved |-> FALSE, was_read |-> FALSE]
    /\ UNCHANGED <<read_objs, notRead>>

NoRows == [notifications |-> <<>>, messages |-> <<>>]

InitRead ==
    /\ read_rows = NoRows
    /\ read_objs = NoRows
    /\ rd = NoRead

ParkedRead ==
    /\ read_rows = NoRows
    /\ read_objs = NoRows
    /\ rd = NoRead

NextRead ==
    \/ Read_Notification_Create
    \/ Read_Message_Create
    \/ Read_Notification_mark_as_read
    \/ Read_Message_mark_as_read
    \/ Read_Message_mark_as_unread
    \/ Read_mark_notification_read
    \/ Read_mark_message_read
    \/ Read_mark_message_unread
    \/ Read_mark_all_as_read
    \/ Read_Messages_mark_all_as_read
    \/ Read_batch_mark_read
    \/ Read_Admin_mark

(***************************************************************************)
(* Django-signals_orm-0x04/messaging/views.py: send_message,               *)
(* start_conversation, send_reply                                          *)
(* A view call is made by a logged-in user (request.user) with the form    *)
(* fields of the POST; it returns the row it creates, or no row.           *)
(***************************************************************************)
\* The user names: "al", "bo" and "cy".
ViewUsers == { <<97, 108>>, <<98, 111>>, <<99, 121>> }

\* The receiver field of the form: a user name, " bo\r\n", a name nobody
\* has ("no"), a no-break space only, or nothing.
ReceiverFields == ViewUsers \cup { <<32, 98, 111, 13, 10>>, <<110, 111>>, <<160>>, <<>> }

\* The content field: "hi", "\fhi ", a line break "\r\n" only, or nothing.
ContentFields == { <<104, 105>>, <<12, 104, 105, 32>>, <<13, 10>>, <<>> }

NoRow == [created |-> FALSE, sender |-> <<>>, receiver |-> <<>>, parent_message |-> 0]

NewRow(sender, receiver, parent) ==
    [created |-> TRUE, sender |-> sender, receiver |-> receiver, parent_message |-> parent]

\* The request method; only a POST reaches the code that creates a row.
Methods == {"GET", "POST"}

send_message(method, user, receiver_username, content) ==
    IF method # "POST" THEN NoRow
    ELSE IF receiver_username = <<>> \/ content = <<>> THEN NoRow
    ELSE IF receiver_username \notin ViewUsers THEN NoRow
    ELSE IF receiver_username = user THEN NoRow
    ELSE NewRow(user, receiver_username, 0)

start_conversation(method, user, receiver_username, content) ==
    IF method # "POST" THEN NoRow
    ELSE IF strip(receiver_username) = <<>> \/ strip(content) = <<>> THEN NoRow
    ELSE IF strip(receiver_username) \notin ViewUsers THEN NoRow
    ELSE IF strip(receiver_username) = user THEN NoRow
    ELSE NewRow(user, strip(receiver_username), 0)

\* send_reply without the test that the user is part of the conversation.
send_reply_by_anyone(method, user, parent_message_id, content) ==
    IF method # "POST" THEN NoRow
    ELSE IF parent_message_id \notin 1..Len(view_messages) THEN NoRow
    ELSE LET parent == view_messages[parent_message_id]
         IN  IF strip(content) = <<>> THEN NoRow
             ELSE NewRow(user,
                         IF user = parent.receiver THEN parent.sender
                         ELSE parent.receiver,
                         parent_message_id)

send_reply(method, user, parent_message_id, content) ==
    IF method # "POST" THEN NoRow
    ELSE IF parent_message_id \notin 1..Len(view_messages) THEN NoRow
    ELSE LET parent == view_messages[parent_message_id]
         IN  IF user \notin {parent.sender, parent.receiver} THEN NoRow
             ELSE IF strip(content) = <<>> THEN NoRow
             ELSE NewRow(user,
                         IF user = parent.receiver THEN parent.sender
                         ELSE parent.receiver,
                         parent_message_id)

Store_row(row) ==
    IF row.created
    THEN Append(view_messages, [sender |-> row.sender, receiver |-> row.receiver,
                                parent_message |-> row.parent_message])
    ELSE view_messages

View_send_message ==
    /\ Len(view_messages) < MaxPosted
    /\ \E method \in Methods, user \in ViewUsers, receiver \in ReceiverFields, content \in ContentFields :
         LET row == send_message(method, user, receiver, content)
         IN  /\ view_messages' = Store_row(row)
             /\ vr' = [view |-> "send_message", user |-> user, created |-> row.created]
    /\ UNCHANGED notViews

View_start_conversation ==
    /\ Len(view_messages) < MaxPosted
    /\ \E method \in Methods, user \in ViewUsers, receiver \in ReceiverFields, content \in ContentFields :
         LET row == start_conversation(method, user, receiver, content)
         IN  /\ view_messages' = Store_row(row)
             /\ vr' = [view |-> "start_conversation", user |-> user, created |-> row.created]
    /\ UNCHANGED notViews

View_send_reply ==
    /\ Len(view_messages) < MaxPosted
    /\ \E method \in Methods, user \in ViewUsers, id \in 1..(Len(view_messages) + 1), content \in ContentFields :
         LET row == send_reply(method, user, id, content)
         IN  /\ view_messages' = Store_row(row)
             /\ vr' = [view |-> "send_reply", user |-> user, created |-> row.created]
    /\ UNCHANGED notViews

NoView == [view |-> "", user |-> <<>>, created |-> FALSE]

InitViews ==
    /\ view_messages = <<>>
    /\ vr = NoView

ParkedViews ==
    /\ view_messages = <<>>
    /\ vr = NoView

NextViews ==
    \/ View_send_message
    \/ View_start_conversation
    \/ View_send_reply

(***************************************************************************)
(* Django-signals_orm-0x04/messaging_app/messaging/middleware.py:          *)
(* one OffensiveLanguageMiddleware instance called by concurrent worker    *)
(* threads.  A request has a method, REMOTE_ADDR, the X-Forwarded-For      *)
(* header as the list of its comma-separated entries (<<>> when absent)    *)
(* and whether it is an API call.  Each statement of is_rate_limited is    *)
(* one step of a worker, and so is what __call__ does after it, outside    *)
(* the lock; the steps of different workers interleave freely, and the     *)
(* clock moves between them.  wall.passed[ip] lists the times at which a   *)
(* POST of that IP was handed to get_response, when wall.recording says    *)
(* that they are written down.                                             *)
(***************************************************************************)
max_messages == 5

time_window == 60

ClientIPs == {"10.0.0.1", "10.0.0.2"}

Workers == {1, 2}

\* A direct POST of a page, a POST relayed by a proxy for another client to
\* the API, and a direct GET.
Requests ==
    { [method |-> "POST", REMOTE_ADDR |-> "10.0.0.1", X_FORWARDED_FOR |-> <<>>,
       api |-> FALSE],
      [method |-> "POST", REMOTE_ADDR |-> "10.0.0.1",
       X_FORWARDED_FOR |-> <<"10.0.0.2", "10.0.0.1">>, api |-> TRUE],
      [method |-> "GET", REMOTE_ADDR |-> "10.0.0.1", X_FORWARDED_FOR |-> <<>>,
       api |-> TRUE] }

\* The step by which the clock moves: a whole time window, so that what was
\* stored before the step is old to a request that comes after it and recent
\* to a request that read the time before it.
WallSteps == {time_window}

get_client_ip(request) ==
    IF request.X_FORWARDED_FOR # <<>>
    THEN request.X_FORWARDED_FOR[1]
    ELSE request.REMOTE_ADDR

clean_old_messages(history, ip_address, current_time) ==
    LET cutoff_time == current_time - time_window
    IN  [history EXCEPT ![ip_address] = SelectSeq(@, LAMBDA timestamp : timestamp > cutoff_time)]

\* The response to a limited POST: JSON for API calls, HTML otherwise.
RateLimitResponse(request) ==
    [status |-> 429, retry_after |-> time_window, passed_on |-> FALSE,
     body |-> IF request.api THEN "json" ELSE "html"]

\* The response of the next handler.
NextHandlerResponse(request) ==
    [status |-> 200, retry_after |-> 0, passed_on |-> TRUE, body |-> "view"]

NoResponse == [status |-> 0, retry_after |-> 0, passed_on |-> FALSE, body |-> ""]

NoRequest == [method |-> "", REMOTE_ADDR |-> "", X_FORWARDED_FOR |-> <<>>, api |-> FALSE]

\* A worker's place in the code and its locals; the locals of
\* is_rate_limited are gone when it has returned.
IdleWorker ==
    [pc |-> "idle", request |-> NoRequest, ip |-> "", current_time |-> 0,
     message_count |-> 0, limited |-> FALSE, appends |-> 0, response |-> NoResponse]

\* A lock that lets every thread in.
lock_never_blocks(holder) == TRUE

\* with self.lock: a thread enters when no thread holds the lock.
lock_acquirable(holder) == holder = 0

\* __call__(request): a request that is not a POST goes to the next handler;
\* for a POST, client_ip = self.get_client_ip(request), and is_rate_limited
\* starts with current_time = datetime.now(), before the lock is taken.
Worker_Call(w) ==
    /\ workers[w].pc \in {"idle", "returned"}
    /\ wall.served < MaxServed
    /\ \E request \in Requests :
         workers' = [workers EXCEPT ![w] =
             IF request.method = "POST"
             THEN [IdleWorker EXCEPT !.request = request, !.pc = "timed",
                                     !.ip = get_client_ip(request),
                                     !.current_time = wall.now]
             ELSE [IdleWorker EXCEPT !.request = request, !.pc = "returned",
                                     !.response = NextHandlerResponse(request)]]
    /\ wall' = [wall EXCEPT !.served = @ + 1]
    /\ UNCHANGED <<ip_message_history, lock, notWorkers>>

\* with self.lock:
Worker_Acquire(w) ==
    /\ workers[w].pc = "timed"
    /\ lock_acquirable(lock)
    /\ lock' = w
    /\ workers' = [workers EXCEPT ![w].pc = "locked"]
    /\ UNCHANGED <<ip_message_history, wall, notWorkers>>

\* self.clean_old_messages(ip_address, current_time)
Worker_Clean(w) ==
    /\ workers[w].pc = "locked"
    /\ ip_message_history' =
           clean_old_messages(ip_message_history, workers[w].ip, workers[w].current_time)
    /\ workers' = [workers EXCEPT ![w].pc = "cleaned"]
    /\ UNCHANGED <<lock, wall, notWorkers>>

\* message_count = len(self.ip_message_history[ip_address])
Worker_Count(w) ==
    /\ workers[w].pc = "cleaned"
    /\ workers' = [workers EXCEPT ![w].pc = "counted",
                                  ![w].message_count = Len(ip_message_history[workers[w].ip])]
    /\ UNCHANGED <<ip_message_history, lock, wall, notWorkers>>

\* if message_count >= self.max_messages: return True.  Leaving the `with`
\* block releases the lock; the locals of is_rate_limited are gone.
Worker_Reject(w) ==
    /\ workers[w].pc = "counted"
    /\ workers[w].message_count >= max_messages
    /\ workers' = [workers EXCEPT ![w].pc = "limited", ![w].limited = TRUE,
                                  ![w].current_time = 0, ![w].message_count = 0]
    /\ lock' = IF lock = w THEN 0 ELSE lock
    /\ UNCHANGED <<ip_message_history, wall, notWorkers>>

\* __call__ after is_rate_limited returned True: the 429 response is built
\* and returned, outside the lock.
Worker_Respond(w) ==
    /\ workers[w].pc = "limited"
    /\ workers' = [workers EXCEPT ![w].pc = "returned",
                                  ![w].response = RateLimitResponse(workers[w].request)]
    /\ UNCHANGED <<ip_message_history, lock, wall, notWorkers>>

\* self.ip_message_history[ip_address].append(current_time)
Worker_Append(w) ==
    /\ workers[w].pc = "counted"
    /\ workers[w].message_count < max_messages
    /\ ip_message_history' = [ip_message_history EXCEPT
                              ![workers[w].ip] = Append(@, workers[w].current_time)]
    /\ workers' = [workers EXCEPT ![w].pc = "appended", ![w].appends = @ + 1]
    /\ UNCHANGED <<lock, wall, notWorkers>>

\* return False.  Leaving the `with` block releases the lock; the locals of
\* is_rate_limited are gone.
Worker_Accept(w) ==
    /\ workers[w].pc = "appended"
    /\ workers' = [workers EXCEPT ![w].pc = "allowed", ![w].limited = FALSE,
                                  ![w].current_time = 0, ![w].message_count = 0]
    /\ lock' = IF lock = w THEN 0 ELSE lock
    /\ UNCHANGED <<ip_message_history, wall, notWorkers>>

\* __call__ after is_rate_limited returned False:
\* response = self.get_response(request), outside the lock.
Worker_Get_response(w) ==
    /\ workers[w].pc = "allowed"
    /\ workers' = [workers EXCEPT ![w].pc = "returned",
                                  ![w].response = NextHandlerResponse(workers[w].request)]
    /\ wall' = IF wall.recording
               THEN [wall EXCEPT !.passed[workers[w].ip] = Append(@, wall.now)]
               ELSE wall
    /\ UNCHANGED <<ip_message_history, lock, notWorkers>>

\* Time passes while the workers run.
Wall_Tick ==
    /\ wall.ticks < MaxWallTicks
    /\ \E step \in WallSteps :
         wall' = [wall EXCEPT !.now = @ + step, !.ticks = @ + 1]
    /\ UNCHANGED <<ip_message_history, lock, workers, notWorkers>>

NoWall ==
    [now |-> 0, served |-> 0, ticks |-> 0, recording |-> FALSE,
     passed |-> [ip \in ClientIPs |-> <<>>]]

InitWorkers ==
    /\ ip_message_history = [ip \in ClientIPs |-> <<>>]
    /\ lock = 0
    /\ workers = [w \in Workers |-> IdleWorker]
    /\ wall = NoWall

\* The same start, with the hand-overs to get_response written down.
InitPassed ==
    /\ ip_message_history = [ip \in ClientIPs |-> <<>>]
    /\ lock = 0
    /\ workers = [w \in Workers |-> IdleWorker]
    /\ wall = [NoWall EXCEPT !.recording = TRUE]

ParkedWorkers ==
    /\ ip_message_history = [ip \in ClientIPs |-> <<>>]
    /\ lock = 0
    /\ workers = [w \in Workers |-> IdleWorker]
    /\ wall = NoWall

NextWorkers ==
    \/ \E w \in Workers : Worker_Call(w)
    \/ \E w \in Workers : Worker_Acquire(w)
    \/ \E w \in Workers : Worker_Clean(w)
    \/ \E w \in Workers : Worker_Count(w)
    \/ \E w \in Workers : Worker_Reject(w)
    \/ \E w \in Workers : Worker_Respond(w)
    \/ \E w \in Workers : Worker_Append(w)
    \/ \E w \in Workers : Worker_Accept(w)
    \/ \E w \in Workers : Worker_Get_response(w)
    \/ Wall_Tick

Init == InitBatch /\ ParkedAges /\ ParkedStream /\ ParkedScope /\ ParkedConc /\ ParkedClient /\ ParkedCache /\ ParkedMessaging /\ ParkedWindow /\ ParkedThread /\ ParkedAccount /\ ParkedRead /\ ParkedViews /\ ParkedWorkers

Next == NextBatch

Spec == Init /\ [][Next]_vars

\* The consumer of 1-batch_processing.py and 2-lazy_paginate.py is a for loop:
\* it goes on pulling while a pull is possible.
SpecFair ==
    /\ Init /\ [][Next]_vars
    /\ WF_vars(Pull_stream_users_in_batches)
    /\ WF_vars(Pull_lazy_paginate)
    /\ WF_vars(Pull_batch_processing)

AgesInit == ParkedBatch /\ InitAges /\ ParkedStream /\ ParkedScope /\ ParkedConc /\ ParkedClient /\ ParkedCache /\ ParkedMessaging /\ ParkedWindow /\ ParkedThread /\ ParkedAccount /\ ParkedRead /\ ParkedViews /\ ParkedWorkers

SpecAges == AgesInit /\ [][NextAges]_vars

StreamInit == ParkedBatch /\ ParkedAges /\ InitStream /\ ParkedScope /\ ParkedConc /\ ParkedClient /\ ParkedCache /\ ParkedMessaging /\ ParkedWindow /\ ParkedThread /\ ParkedAccount /\ ParkedRead /\ ParkedViews /\ ParkedWorkers

SpecStream == StreamInit /\ [][NextStream]_vars

ScopeInit == ParkedBatch /\ ParkedAges /\ ParkedStream /\ InitScope /\ ParkedConc /\ ParkedClient /\ ParkedCache /\ ParkedMessaging /\ ParkedWindow /\ ParkedThread /\ ParkedAccount /\ ParkedRead /\ ParkedViews /\ ParkedWorkers

SpecScope == ScopeInit /\ [][NextScope]_vars

ConcInit == ParkedBatch /\ ParkedAges /\ ParkedStream /\ ParkedScope /\ InitConc /\ ParkedClient /\ ParkedCache /\ ParkedMessaging /\ ParkedWindow /\ ParkedThread /\ ParkedAccount /\ ParkedRead /\ ParkedViews /\ ParkedWorkers

SpecConc == ConcInit /\ [][NextConc]_vars

ClientInit == ParkedBatch /\ ParkedAges /\ ParkedStream /\ ParkedScope /\ ParkedConc /\ InitClient /\ ParkedCache /\ ParkedMessaging /\ ParkedWindow /\ ParkedThread /\ ParkedAccount /\ ParkedRead /\ ParkedViews /\ ParkedWorkers

SpecClient == ClientInit /\ [][NextClient]_vars

CacheInit == ParkedBatch /\ ParkedAges /\ ParkedStream /\ ParkedScope /\ ParkedConc /\ ParkedClient /\ InitCache /\ ParkedMessaging /\ ParkedWindow /\ ParkedThread /\ ParkedAccount /\ ParkedRead /\ ParkedViews /\ ParkedWorkers

SpecCache == CacheInit /\ [][NextCache]_vars

MessagingInit == ParkedBatch /\ ParkedAges /\ ParkedStream /\ ParkedScope /\ ParkedConc /\ ParkedClient /\ ParkedCache /\ InitMessaging /\ ParkedWindow /\ ParkedThread /\ ParkedAccount /\ ParkedRead /\ ParkedViews /\ ParkedWorkers

SpecMessaging == MessagingInit /\ [][NextMessaging]_vars

WindowInit == LoadedBatch /\ ParkedAges /\ ParkedStream /\ ParkedScope /\ ParkedConc /\ ParkedClient /\ ParkedCache /\ ParkedMessaging /\ InitWindow /\ ParkedThread /\ ParkedAccount /\ ParkedRead /\ ParkedViews /\ ParkedWorkers

SpecWindow == WindowInit /\ [][NextWindow]_vars

ThreadInit == ParkedBatch /\ ParkedAges /\ ParkedStream /\ ParkedScope /\ ParkedConc /\ ParkedClient /\ ParkedCache /\ ParkedMessaging /\ ParkedWindow /\ InitThread /\ ParkedAccount /\ ParkedRead /\ ParkedViews /\ ParkedWorkers

SpecThread == ThreadInit /\ [][NextThread]_vars

AccountInit == ParkedBatch /\ ParkedAges /\ ParkedStream /\ ParkedScope /\ ParkedConc /\ ParkedClient /\ ParkedCache /\ ParkedMessaging /\ ParkedWindow /\ ParkedThread /\ InitAccount /\ ParkedRead /\ ParkedViews /\ ParkedWorkers

SpecAccount == AccountInit /\ [][NextAccount]_vars

ReadInit == ParkedBatch /\ ParkedAges /\ ParkedStream /\ ParkedScope /\ ParkedConc /\ ParkedClient /\ ParkedCache /\ ParkedMessaging /\ ParkedWindow /\ ParkedThread /\ ParkedAccount /\ InitRead /\ ParkedViews /\ ParkedWorkers

SpecRead == ReadInit /\ [][NextRead]_vars

ViewsInit == ParkedBatch /\ ParkedAges /\ ParkedStream /\ ParkedScope /\ ParkedConc /\ ParkedClient /\ ParkedCache /\ ParkedMessaging /\ ParkedWindow /\ ParkedThread /\ ParkedAccount /\ ParkedRead /\ InitViews /\ ParkedWorkers

SpecViews == ViewsInit /\ [][NextViews]_vars

WorkersInit == ParkedBatch /\ ParkedAges /\ ParkedStream /\ ParkedScope /\ ParkedConc /\ ParkedClient /\ ParkedCache /\ ParkedMessaging /\ ParkedWindow /\ ParkedThread /\ ParkedAccount /\ ParkedRead /\ ParkedViews /\ InitWorkers

SpecWorkers == WorkersInit /\ [][NextWorkers]_vars

PassedInit == ParkedBatch /\ ParkedAges /\ ParkedStream /\ ParkedScope /\ ParkedConc /\ ParkedClient /\ ParkedCache /\ ParkedMessaging /\ ParkedWindow /\ ParkedThread /\ ParkedAccount /\ ParkedRead /\ ParkedViews /\ InitPassed

SpecPassed == PassedInit /\ [][NextWorkers]_vars

(***************************************************************************)
(* Properties of the chunked generators.                                   *)
(***************************************************************************)
RECURSIVE Concat(_)
Concat(chunks) ==
    IF chunks = <<>> THEN <<>>
    ELSE Concat(SubSeq(chunks, 1, Len(chunks) - 1)) \o Last(chunks)

Min(a, b) == IF a < b THEN a ELSE b

Rows(seq) == {seq[i] : i \in 1..Len(seq)}

IsPrefix(s, t) == Len(s) <= Len(t) /\ s = SubSeq(t, 1, Len(s))

\* Two logs agree on every step both have taken.
AgreeSoFar(s, t) == \A i \in 1..Min(Len(s), Len(t)) : s[i] = t[i]

WellFormed(table) == \A i \in 1..Len(table) : IsInt(table[i].age)

\* C1: for batch_size > 0 the batches yielded by stream_users_in_batches,
\* concatenated in order, are at every moment a prefix of the table and, once
\* the generator has ended, exactly the table: every row once, in order.
C1_BatchesReproduceTable ==
    batch_size > 0 =>
        /\ IsPrefix(Concat(sb.out), users_db)
        /\ sb.pc = "done" => Concat(sb.out) = users_db

C1_Witness ==
    /\ batch_size > 0
    /\ sb.pc = "done"
    /\ Len(sb.out) >= 2
    /\ Len(Last(sb.out)) < batch_size

\* C2: for size > 0, lazy_paginate(size) and stream_users_in_batches(size)
\* over the same table read the same window at the same offset at every step,
\* yield the same chunks in the same order, and are in the same place with the
\* same offset whenever they have taken the same number of steps.
C2_PagesEqualBatches ==
    batch_size > 0 =>
        /\ AgreeSoFar(sb.fetched, lp.fetched)
        /\ AgreeSoFar(sb.out, lp.out)
        /\ Len(sb.fetched) = Len(lp.fetched) =>
               /\ sb.pc = lp.pc
               /\ sb.offset = lp.offset
               /\ sb.out = lp.out
        /\ (sb.pc = "done" /\ lp.pc = "done") =>
               sb.out = lp.out /\ sb.fetched = lp.fetched

C2_Witness ==
    /\ batch_size > 0
    /\ sb.pc = "done"
    /\ lp.pc = "done"
    /\ Len(lp.out) >= 2
    /\ Len(Last(lp.out)) < batch_size

\* C3 as claimed: no chunk handed to the consumer by stream_users_in_batches,
\* lazy_paginate or batch_processing is empty.
C3_NoEmptyChunk ==
    /\ \A i \in 1..Len(sb.out) : sb.out[i] # <<>>
    /\ \A i \in 1..Len(lp.out) : lp.out[i] # <<>>
    /\ \A i \in 1..Len(bp.out) : bp.out[i] # <<>>

EmptyOnlyEnds(g) ==
    /\ \A i \in 1..Len(g.out) : g.out[i] # <<>>
    /\ \A i \in 1..Len(g.fetched) :
           g.fetched[i].rows = <<>> => (i = Len(g.fetched) /\ g.pc = "done")

\* C3 as amended: every chunk yielded by stream_users_in_batches and
\* lazy_paginate holds at least one row, and an empty window is never yielded
\* by them: it ends the stream.  batch_processing yields one chunk for every
\* non-empty raw batch whose ages are all integers: the rows of it whose age
\* is above 25, in order, a chunk that is empty exactly when no row of its
\* raw batch passed the filter.  For the first raw batch that holds an age
\* that is no integer it yields nothing: int() raises and batch_processing
\* is left by the exception, with every raw batch before that one yielded.
C3_RawChunksNeverEmpty ==
    /\ EmptyOnlyEnds(sb)
    /\ EmptyOnlyEnds(lp)
    /\ EmptyOnlyEnds(bp.inner)
    /\ bp.pc = "failed" <=>
           (bp.inner.out # <<>> /\ ~WellFormed(Last(bp.inner.out)))
    /\ Len(bp.out) = Len(bp.inner.out) - (IF bp.pc = "failed" THEN 1 ELSE 0)
    /\ \A i \in 1..Len(bp.out) :
           /\ WellFormed(bp.inner.out[i])
           /\ bp.out[i] = SelectSeq(bp.inner.out[i], LAMBDA u : int(u.age) > 25)
           /\ bp.out[i] = <<>> <=>
                  \A k \in 1..Len(bp.inner.out[i]) : int(bp.inner.out[i][k].age) <= 25

\* An empty filtered chunk in the middle of a stream, followed by a
\* non-empty one.
C3_Witness ==
    /\ Len(bp.out) >= 2
    /\ bp.out[1] = <<>>
    /\ bp.out[2] # <<>>
    /\ Len(sb.out) >= 2
    /\ lp.pc = "done"

\* C4: whatever the ages, batch_processing reads the windows that the
\* unfiltered stream_users_in_batches reads, at the same offsets; its i-th
\* window is read at offset (i - 1) * batch_size, whatever number of rows
\* passed the filter; and over a table of well-formed ages it has read all
\* of them when it ends.
C4_FilterKeepsOffsets ==
    batch_size > 0 =>
        /\ AgreeSoFar(bp.inner.fetched, sb.fetched)
        /\ \A i \in 1..Len(bp.inner.fetched) :
               /\ bp.inner.fetched[i].offset = (i - 1) * batch_size
               /\ bp.inner.fetched[i].rows =
                      PySlice(users_db, (i - 1) * batch_size, i * batch_size)
        /\ (bp.pc = "done" /\ sb.pc = "done") => bp.inner.fetched = sb.fetched
        /\ (WellFormed(users_db) /\ bp.pc = "done") =>
               Concat(bp.inner.out) = users_db

\* The filter dropped rows of a first batch and a later batch was read.
C4_Witness ==
    /\ batch_size > 1
    /\ bp.pc = "done"
    /\ Len(bp.out) >= 2
    /\ Len(bp.out[1]) < batch_size
    /\ bp.out[2] # <<>>

\* C5 as claimed: no window is fetched after a window with fewer than
\* batch_size rows: every window but the last one fetched is full.
C5_NoFetchAfterShort ==
    /\ \A i \in 1..(Len(sb.fetched) - 1) : Len(sb.fetched[i].rows) = batch_size
    /\ \A i \in 1..(Len(lp.fetched) - 1) : Len(lp.fetched[i].rows) = batch_size

\* What the loops do ensure: the stream ends on the first empty window.  A
\* short non-empty window is yielded like any other; the pull after it
\* fetches one more window, which is empty, and only then is the reader
\* exhausted.  No window is fetched after an empty one.
EndsOnEmpty(g) ==
    /\ g.pc = "done" <=> (g.fetched # <<>> /\ Last(g.fetched).rows = <<>>)
    /\ \A i \in 1..(Len(g.fetched) - 1) : g.fetched[i].rows # <<>>
    /\ \A i \in 1..Len(g.fetched) :
           (g.fetched[i].rows # <<>> /\ Len(g.fetched[i].rows) < batch_size) =>
               /\ g.out[i] = g.fetched[i].rows
               /\ Len(g.fetched) <= i + 1
               /\ Len(g.fetched) = i + 1 => Last(g.fetched).rows = <<>>

EndsOnFirstEmpty == EndsOnEmpty(sb) /\ EndsOnEmpty(lp)

PastEndIsEmpty(g) ==
    \A i \in 1..Len(g.fetched) :
        g.fetched[i].offset >= Len(users_db) =>
            /\ g.fetched[i].rows = <<>>
            /\ i = Len(g.fetched)
            /\ g.pc = "done"

Absorbing(g, h) ==
    g.pc = "done" =>
        /\ h.pc = "done"
        /\ h.out = g.out
        /\ h.fetched = g.fetched
        /\ h.offset = g.offset
        /\ h.stops = g.stops + 1

\* C6: a window requested at an offset at or past the end of the table is
\* empty (in the list version and in the LIMIT/OFFSET version); the reader
\* that receives it is exhausted; and every later pull on an exhausted reader
\* is StopIteration again: it yields nothing, reads nothing and leaves the
\* reader exhausted.
C6_PastEndExhausts ==
    /\ [](/\ \A size \in 0..(MaxBatch + 1), past \in 0..(MaxBatch + 1) :
               paginate_users(size, Len(users_db) + past) = <<>>
          /\ \A scan \in ScanOrders :
               \A size \in 0..(MaxBatch + 1), past \in 0..(MaxBatch + 1) :
                   paginate_users_sql(size, Len(users_db) + past, "connected", scan)
                       = [raised |-> "", closed |-> TRUE, rows |-> <<>>]
          /\ PastEndIsEmpty(lp)
          /\ PastEndIsEmpty(sb))
    /\ [][Absorbing(lp, lp')]_lp
    /\ [][Absorbing(sb, sb')]_sb

C6_Witness ==
    /\ lp.pc = "done"
    /\ lp.stops >= 3
    /\ Len(lp.out) >= 1
    /\ Last(lp.fetched).offset > Len(users_db)

(***************************************************************************)
(* Properties of stream_users.                                             *)
(***************************************************************************)
\* C7 as claimed: when the store raised Error into the scan (on connect,
\* execute or fetchone), the pull that met it raised an exception to the
\* consumer, so that the generator did not end as an exhausted one does.
C7_StoreFailureSurfaced ==
    (su.pc = "finished" /\ su.failed) => su.end = "raised"

\* C8 as claimed: once the iteration is finished, by exhaustion, by an early
\* close or by an error, the cursor and the connection it opened are closed:
\* none is still open.
C8_FinishedReleasesStore ==
    su.pc = "finished" => (su.cursor # "open" /\ su.connection # "connected")

(***************************************************************************)
(* Properties of the scoped connection helpers.                            *)
(***************************************************************************)
ScopeClosed(h) == h.pc \in {"init", "done"} => (h.conn # "open" /\ h.opened = h.closed)

\* C9 as claimed: a use of DatabaseConnection, ExecuteQuery or
\* with_db_connection that is over, normally or by an exception (of the body,
\* or of the query ExecuteQuery executes while entering), has closed every
\* connection it opened.
C9_EveryScopeCloses == ScopeClosed(dc) /\ ScopeClosed(eq) /\ ScopeClosed(wd)

\* What does hold: DatabaseConnection and with_db_connection close on every
\* path.
ScopesThatClose == ScopeClosed(dc) /\ ScopeClosed(wd)

(***************************************************************************)
(* Properties of calculate_average_age.                                    *)
(***************************************************************************)
AgesAre(values) ==
    /\ WellFormed(ages_db)
    /\ Len(ages_db) = Cardinality(values)
    /\ {int(ages_db[i].age) : i \in 1..Len(ages_db)} = values

\* C10 as claimed: over the ages {28, 34, 42} calculate_average_age
\* returns 34.0.
C10_AverageIs34 ==
    (avg.pc = "done" /\ AgesAre({28, 34, 42})) => avg.result = [num |-> 34, den |-> 1]

\* C10 as amended: over the ages {28, 34, 42} calculate_average_age returns
\* 104 / 3 (34.666..., strictly between 34 and 35): the sum 104 of the three
\* ages divided by their number 3.
C10_AverageIs104Thirds ==
    (avg.pc = "done" /\ AgesAre({28, 34, 42})) =>
        /\ avg.total_age = 104
        /\ avg.count = 3
        /\ avg.result = [num |-> 104, den |-> 3]
        /\ 34 * avg.result.den < avg.result.num
        /\ avg.result.num < 35 * avg.result.den

C10_Witness ==
    /\ avg.pc = "done"
    /\ AgesAre({28, 34, 42})
    /\ avg.result.den # 0

RECURSIVE SumOfAges(_)
SumOfAges(rows) ==
    IF rows = <<>> THEN 0
    ELSE SumOfAges(SubSeq(rows, 1, Len(rows) - 1)) + int(Last(rows).age)

\* C11: calculate_average_age reads the age stream once, front to back,
\* keeping only the running sum and count: after k rows total_age is the sum
\* of the first k ages and count is k.  When it returns it has read every
\* row, and the result is total_age / count; for an empty table it is 0 and
\* no division was performed.  It is left by an exception only at a row
\* whose age is no integer.
C11_RunningSumAndCount ==
    /\ avg.next <= Len(ages_db)
    /\ avg.count = avg.next
    /\ WellFormed(SubSeq(ages_db, 1, avg.next))
    /\ avg.total_age = SumOfAges(SubSeq(ages_db, 1, avg.next))
    /\ avg.pc = "done" =>
           /\ avg.next = Len(ages_db)
           /\ avg.count = 0 => (avg.result = [num |-> 0, den |-> 1] /\ ~avg.divided)
           /\ avg.count > 0 =>
                  /\ avg.divided
                  /\ avg.result.den > 0
                  /\ avg.result.num * avg.count = avg.total_age * avg.result.den
    /\ avg.pc = "failed" =>
           (avg.next < Len(ages_db) /\ ~IsInt(ages_db[avg.next + 1].age))

C11_Witness ==
    /\ avg.pc = "done"
    /\ avg.count >= 2
    /\ avg.result.den > 1
    /\ avg.divided

\* C12 as claimed: a row whose age is no integer is not fatal: neither
\* batch_processing nor calculate_average_age is left by an exception at it.
C12_MalformedRowNotFatal == bp.pc # "failed" /\ avg.pc # "failed"

\* C13: stream_users hands over the rows of user_data in the store's order,
\* one per pull and none twice; when it ends because the cursor it opened
\* returned no row it has handed over every row exactly once (a scan that the
\* store cut short, by an Error or by a connection that is_connected() says
\* is gone, has handed over a prefix); and once it has ended a
\* pull yields no row and does not run the query again.
C13_RowsOnceInOrder ==
    /\ [](/\ IsPrefix(su.out, user_data)
          /\ su.pos = Len(su.out)
          /\ (su.pc = "finished" /\ su.end = "StopIteration" /\ ~su.failed
                  /\ su.cursor # "None") =>
                 su.out = user_data)
    /\ [][/\ Len(su'.out) <= Len(su.out) + 1
          /\ su.pc = "finished" =>
                 /\ su'.pc = "finished"
                 /\ su'.out = su.out
                 /\ su'.pos = su.pos
                 /\ su'.connection = su.connection
                 /\ su'.cursor = su.cursor]_su

C13_Witness ==
    /\ su.pc = "finished"
    /\ ~su.failed
    /\ su.cursor # "None"
    /\ su.end = "StopIteration"
    /\ Len(su.out) >= 2
    /\ su.out = user_data
    /\ su.stops >= 2

\* C14: whichever way the two tasks interleave, fetch_concurrently returns
\* only when async_fetch_users and async_fetch_older_users have both
\* returned and closed their own connections, and what it returns is the
\* pair [all users, users older than 40] in that order, whichever task ended
\* first; a task's result is never touched by the other task.
C14_GatherJoinsBoth ==
    /\ fc.pc = "returned" =>
           /\ t_all.pc = "done" /\ t_all.db = "closed"
           /\ t_older.pc = "done" /\ t_older.db = "closed"
           /\ Len(fc.results) = 2
           /\ fc.results[1] = users
           /\ fc.results[2] = SelectSeq(users, LAMBDA row : row.age > 40)
           /\ \A i \in 1..Len(fc.results[2]) : fc.results[2][i].age > 40
    /\ t_all.pc \in {"fetched", "returning", "done"} => t_all.result = users
    /\ t_older.pc \in {"fetched", "returning", "done"} =>
           t_older.result = SelectSeq(users, LAMBDA row : row.age > 40)

\* The older-users task ended first, and the two results differ.
C14_Witness ==
    /\ fc.pc = "returned"
    /\ fc.completed = <<"older", "all">>
    /\ fc.results[1] # fc.results[2]
    /\ fc.results[2] # <<>>
    /\ \E i \in 1..Len(users) : users[i].age = 40

\* C18: every access of org on a GithubOrgClient(org_name) evaluates to the
\* JSON payload get_json returned, and get_json has then been called exactly
\* once with https://api.github.com/orgs/{org_name}.
C18_OrgAccessGivesPayload ==
    ret.op = "org" =>
        /\ ret.kind = "payload"
        /\ ret.payload = OrgPayload(gh.org_name)
        /\ Len(SelectSeq(get_json_calls, LAMBDA u : u = ORG_URL(gh.org_name))) = 1

\* What memoize does give, when the method is called: client.org() is the
\* payload every time, fetched once.
OrgCallMemoizes ==
    ret.op = "org()" =>
        /\ ret.payload = OrgPayload(gh.org_name)
        /\ Len(SelectSeq(get_json_calls, LAMBDA u : u = ORG_URL(gh.org_name))) = 1

\* C19: public_repos(license) returns the names, in payload order, of the
\* repos for which license is None or has_license(repo, license); a repo
\* whose license is None is listed exactly when no license is requested.
C19_PublicReposListsByLicense ==
    ret.op = "public_repos" =>
        /\ ret.kind = "list"
        /\ \E license \in RepoLicenses :
               ret.names = public_repos(repos_payload, license)

\* With _public_repos_url patched, the comprehension itself does what the
\* claim says.
PatchedPublicReposFilters ==
    ret.op = "public_repos (patched)" =>
        LET license == ret.license
            wanted(i) == \/ license = "None"
                         \/ (repos_payload[i].license # "None" /\ repos_payload[i].license = license)
        IN  /\ \A i \in 1..Len(repos_payload) :
                  wanted(i) <=> \E j \in 1..Len(ret.names) : ret.names[j] = i
            /\ \A j, k \in 1..Len(ret.names) : j < k => ret.names[j] < ret.names[k]

\* C20 as stated: each distinct query text is executed at most once.
C20_EachTextExecutedOnce ==
    \A t \in QueryTexts : cq.ran[t] + cq.raisedBy[t] <= 1

\* The texts whose key is k.
TextsOfKey(k) == {t \in QueryTexts : \E f \in CallForms : CacheKey(f, t) = k}

\* C20 (amended): a call whose key is not stored executes the query and, if
\* the execution returns, stores the result under the key (the text, or None
\* for an empty text passed by keyword); a call whose key is stored returns
\* the stored result without executing, whatever the table holds by then;
\* so each stored key was executed to completion exactly once.  An
\* execution that raises stores nothing and is repeated at the next call.
C20_CacheStoresCompletedRuns ==
    /\ [](/\ \A k \in DOMAIN query_cache :
                 /\ k \in QueryTexts \cup {"None"}
                 /\ \E t \in TextsOfKey(k) : cq.ran[t] >= 1
          /\ \A t \in QueryTexts :
                 /\ cq.ran[t] <= Cardinality({f \in CallForms : CacheKey(f, t) \in DOMAIN query_cache})
                 /\ cq.ran[t] > 0 =>
                        \E f \in CallForms : CacheKey(f, t) \in DOMAIN query_cache
          /\ cq.last.hit => /\ cq.last.key \in DOMAIN query_cache
                            /\ cq.last.result = query_cache[cq.last.key]
          /\ (cq.calls > 0 /\ ~cq.last.raised) =>
                 /\ cq.last.key \in DOMAIN query_cache
                 /\ cq.last.result = query_cache[cq.last.key]
          /\ cq.conn \in {"None", "closed"})
    /\ [][/\ \A k \in DOMAIN query_cache :
                 k \in DOMAIN query_cache' /\ query_cache'[k] = query_cache[k]
          /\ cq'.last.key \in DOMAIN query_cache =>
                 /\ cq'.last.hit
                 /\ cq'.ran = cq.ran
                 /\ cq'.raisedBy = cq.raisedBy
                 /\ query_cache' = query_cache
          /\ cq'.last.key \notin DOMAIN query_cache =>
                 /\ ~cq'.last.hit
                 /\ cq'.ran[cq'.last.text] + cq'.raisedBy[cq'.last.text]
                        = cq.ran[cq'.last.text] + cq.raisedBy[cq'.last.text] + 1]_<<query_cache, cq>>

\* The second call of the script's query was answered from the cache with
\* rows the table no longer equals, after a rejected query stored nothing.
C20_Witness ==
    /\ cq.last.hit
    /\ cq.last.text = "SELECT * FROM users"
    /\ cq.last.result # cache_table
    /\ cq.ran["SELECT * FROM users"] = 1
    /\ cq.raisedBy["SELECT * FROM missing"] = 1
    /\ "SELECT * FROM missing" \notin DOMAIN query_cache

NotificationsOf(user) == SelectSeq(notifications, LAMBDA n : n.user = user)

\* C15: a save creates exactly one Notification (type 'message', unread,
\* for the message's receiver, linked to the message) exactly when it
\* created the message, and none when the message existed; so each
\* receiver has as many notifications as messages were created for them.
C15_OneNotificationPerCreation ==
    /\ [](/\ \A user \in MessageUsers :
                 Len(NotificationsOf(user)) = audit.created_for[user]
          /\ Len(notifications) = Len(messages)
          /\ \A i \in 1..Len(notifications) :
                 /\ notifications[i].message = i
                 /\ notifications[i].notification_type = "message"
                 /\ ~notifications[i].is_read)
    /\ [][/\ Len(messages') = Len(messages) => notifications' = notifications
          /\ Len(messages') # Len(messages) =>
                 /\ Len(messages') = Len(messages) + 1
                 /\ notifications' =
                        Append(notifications,
                               [user |-> Last(messages').receiver,
                                message |-> Len(messages'),
                                notification_type |-> "message",
                                is_read |-> FALSE])]_<<messages, notifications>>

\* Two messages created for one receiver, then one of them edited and
\* saved: two notifications, both the receiver's.
C15_Witness ==
    /\ Len(messages) = 2
    /\ messages[1].receiver = "bob" /\ messages[2].receiver = "bob"
    /\ \E pk \in 1..2 : messages[pk].edited
    /\ Len(NotificationsOf("bob")) = 2
    /\ NotificationsOf("alice") = <<>>

\* C16: a save of an existing message adds a history entry exactly when it
\* changes the stored content; other saves, mark_as_read among them, add
\* none; so get_edit_count() is the number of content-changing saves, and
\* a message with an edit in its history is stored as edited.
C16_HistoryCountsContentChanges ==
    \A pk \in 1..Len(messages) :
        /\ get_edit_count(pk) = audit.changes[pk]
        /\ get_edit_count(pk) > 0 => messages[pk].edited /\ messages[pk].edited_at # 0

\* What the receiver does ensure: every stored change of content left one
\* entry holding the content it replaced.
StoredChangesAreLogged ==
    \A pk \in 1..Len(messages) :
        /\ get_edit_count(pk) >= audit.changes[pk]
        /\ messages[pk].edited => get_edit_count(pk) > 0
        /\ \A i \in 1..Len(message_history) :
               message_history[i].old_content \in MessageContents

\* The offset a generator holds after its i-th read, and the chunks it reads.
OffsetsStepBy(g) ==
    \A i \in 1..Len(g.fetched) : g.fetched[i].offset = (i - 1) * batch_size

OffsetAdvances(g, h) ==
    /\ h.offset >= g.offset
    /\ h.fetched # g.fetched =>
           /\ Len(h.fetched) = Len(g.fetched) + 1
           /\ h.offset = IF g.pc = "idle" THEN 0 ELSE g.offset + batch_size
           /\ Last(h.fetched).offset = h.offset
    /\ h.fetched = g.fetched => h.offset = g.offset

\* C24: the offset of stream_users_in_batches and of lazy_paginate starts at
\* 0, never decreases and, when the generator goes on after a yielded chunk,
\* has grown by the requested size, also after the final short chunk.
C24_OffsetStepsByRequestedSize ==
    /\ [](/\ OffsetsStepBy(sb) /\ OffsetsStepBy(lp)
          /\ sb.pc = "idle" => sb.offset = 0
          /\ lp.pc = "idle" => lp.offset = 0
          /\ sb.offset >= 0 /\ lp.offset >= 0)
    /\ [][OffsetAdvances(sb, sb')]_sb
    /\ [][OffsetAdvances(lp, lp')]_lp

\* Both generators ended after a final short chunk: their offset is past the
\* end of the table by less than a batch.
C24_Witness ==
    /\ sb.pc = "done" /\ lp.pc = "done"
    /\ batch_size = 2 /\ Len(users_db) = 3
    /\ sb.offset = 4 /\ lp.offset = 4
    /\ Len(Last(sb.out)) = 1 /\ Len(Last(lp.out)) = 1

WindowInside(g) ==
    \A i \in 1..Len(g.fetched) :
        LET offset == g.fetched[i].offset
            rows == g.fetched[i].rows
        IN  rows # <<>> =>
                /\ offset + Len(rows) <= Len(users_db)
                /\ \A k \in 1..Len(rows) : rows[k] = users_db[offset + k]
                /\ i > 1 => offset = g.fetched[i - 1].offset + Len(g.fetched[i - 1].rows)

\* C25: every read that returns rows returns exactly the rows at positions
\* offset .. offset + length - 1, which lie inside the table, and starts
\* where the read before it ended: no row is skipped or returned twice.
C25_ReadsStayInsideTable ==
    /\ WindowInside(sb)
    /\ WindowInside(lp)
    /\ \A i \in 1..Len(users_db) :
           \A g \in {sb, lp} :
               Cardinality({ <<j, k>> \in (1..Len(g.out)) \X (1..MaxBatch) :
                               k <= Len(g.out[j]) /\ g.out[j][k].user_id = i }) <= 1

\* Two reads of two rows and of one row, one after the other.
C25_Witness ==
    /\ Len(users_db) = 3 /\ batch_size = 2
    /\ Len(sb.fetched) >= 2 /\ Len(lp.fetched) >= 2
    /\ sb.fetched[2].offset = 2 /\ Len(sb.fetched[2].rows) = 1
    /\ lp.fetched[2].offset = 2 /\ Len(lp.fetched[2].rows) = 1

CeilDiv(n, d) == (n + d - 1) \div d

ChunksOf(n) == IF batch_size > 0 THEN CeilDiv(n, batch_size) ELSE 0

\* C28: consumed by a for loop, lazy_paginate and stream_users_in_batches
\* end; by then they have yielded ceil(N / page_size) chunks for a page size
\* above 0 and nothing for the page size 0, after one read more than that.
C28_ChunkedGeneratorsTerminate ==
    /\ <>[](sb.pc = "done" /\ lp.pc = "done")
    /\ [](\A g \in {sb, lp} :
              /\ Len(g.out) <= ChunksOf(Len(users_db))
              /\ g.pc = "done" =>
                     /\ Len(g.out) = ChunksOf(Len(users_db))
                     /\ Len(g.fetched) = ChunksOf(Len(users_db)) + 1)

\* Three rows in pages of two gave two chunks, and the generators ended.
C28_Witness ==
    /\ sb.pc = "done" /\ lp.pc = "done"
    /\ Len(users_db) = 3 /\ batch_size = 2
    /\ Len(sb.out) = 2 /\ Len(lp.out) = 2
    /\ sb.stops >= 1 /\ lp.stops >= 1

RowsAfter(offset) ==
    [i \in 1..(IF Len(users_db) > offset THEN Len(users_db) - offset ELSE 0)
       |-> users_db[offset + i]]

\* The rows left after the first offset ones, at most page_size of them.
WindowLen(page_size, offset) ==
    Min(page_size, IF Len(users_db) > offset THEN Len(users_db) - offset ELSE 0)

\* Every call of 3-main.py's paginate_users that returned, returned the
\* same rows in the same order.
SqlScansAgree ==
    \A i, j \in 1..Len(pw.sql) :
        (pw.sql[i].raised = "" /\ pw.sql[j].raised = "") => pw.sql[i].rows = pw.sql[j].rows

RECURSIVE RepliesUnder(_, _)
RepliesUnder(n, m) ==
    IF n = m THEN TRUE
    ELSE IF parent_message[n] = 0 THEN FALSE
    ELSE RepliesUnder(parent_message[n], m)

Descendants(m) == {n \in ThreadMessages : n # m /\ RepliesUnder(n, m)}

\* C21: get_all_replies_recursive() of a message is a list of all its
\* descendants, each once, without the message itself; so
\* get_total_reply_count() is their number; and get_thread_root() of every
\* message of a thread is the thread's root.
C21_ThreadWalkCoversDescendants ==
    /\ tq.op = "get_all_replies_recursive" /\ tq.of <= Len(parent_message) =>
           /\ {tq.list[i] : i \in 1..Len(tq.list)} \subseteq Descendants(tq.of)
           /\ \A i, j \in 1..Len(tq.list) : i # j => tq.list[i] # tq.list[j]
    /\ \A m \in ThreadMessages :
           /\ {get_all_replies_recursive(m)[i] : i \in 1..get_total_reply_count(m)}
                  = Descendants(m)
           /\ get_total_reply_count(m) = Cardinality(Descendants(m))
           /\ parent_message[get_thread_root(m)] = 0
           /\ RepliesUnder(m, get_thread_root(m))
           /\ \A n \in Descendants(m) : get_thread_root(n) = get_thread_root(m)
    /\ tq.op = "get_thread_root" =>
           parent_message[tq.root] = 0 /\ RepliesUnder(tq.of, tq.root)

\* A root with two replies, one of which has a reply that has a reply: the
\* walk from the root returned all four.
C21_Witness ==
    /\ tq.op = "get_all_replies_recursive"
    /\ parent_message = <<0, 1, 1, 2, 4>>
    /\ tq.of = 1
    /\ tq.list = <<2, 4, 5, 3>>

\* The messages that involve the user: sent or received by them, or replies
\* under such a message.
Involving(t, user) == WithReplies(t, SentBy(t, user) \cup ReceivedBy(t, user))

\* C22 as claimed: after user.delete() every history entry whose editor was
\* the deleted user is kept, with edited_by set to null (what the comment at
\* signals.py:138-139 says of the handler: it "preserves the history but
\* removes the user reference").
C22_EditorEntriesKept ==
    deleted_user # "None" =>
        \A h \in Rows(before.history) :
            h.edited_by = deleted_user =>
                [h EXCEPT !.edited_by = "None"] \in Rows(tables.history)

\* What user.delete() does ensure: no Message has the user as sender or
\* receiver, no Notification is addressed to them and no MessageHistory
\* names them as editor; the history of the deleted messages is deleted
\* with them, an entry of a remaining message whose editor was the user is
\* kept with edited_by null; every row that does not involve the user is
\* as it was, and no row refers to a deleted one.
DeletedUserLeavesNoData ==
    deleted_user # "None" =>
        LET gone == Involving(before, deleted_user)
        IN  /\ \A m \in Rows(tables.messages) :
                   m.sender # deleted_user /\ m.receiver # deleted_user
            /\ \A n \in Rows(tables.notifications) : n.user # deleted_user
            /\ \A h \in Rows(tables.history) : h.edited_by # deleted_user
            /\ Rows(tables.messages) = {m \in Rows(before.messages) : m.pk \notin gone}
            /\ Rows(tables.notifications) =
                   {n \in Rows(before.notifications) :
                        n.user # deleted_user /\ n.message \notin gone}
            /\ Rows(tables.history) =
                   {IF h.edited_by = deleted_user THEN [h EXCEPT !.edited_by = "None"] ELSE h :
                        h \in {x \in Rows(before.history) : x.message \notin gone}}
            /\ \A n \in Rows(tables.notifications) : n.message \in Pks(tables.messages)
            /\ \A h \in Rows(tables.history) : h.message \in Pks(tables.messages)
            /\ \A m \in Rows(tables.messages) :
                   m.parent_message = 0 \/ m.parent_message \in Pks(tables.messages)

\* C23: right after Notification.mark_all_as_read(user) the user has no
\* unread notification, however many there were; mark_as_read leaves the
\* notification or message read, in memory and stored, and on an object
\* that is read already it changes nothing and does not save.
C23_MarkingReadIsIdempotent ==
    /\ [](/\ rd.op = "mark_all_as_read" =>
                 get_unread_count(read_rows.notifications, rd.user) = 0
          /\ rd.op = "Notification.mark_as_read" =>
                 /\ read_objs.notifications[rd.target]
                 /\ rd.saved => read_rows.notifications[rd.target].is_read
                 /\ rd.saved <=> ~rd.was_read
          /\ rd.op = "Message.mark_as_read" =>
                 /\ read_objs.messages[rd.target]
                 /\ rd.saved => read_rows.messages[rd.target].is_read
                 /\ rd.saved <=> ~rd.was_read
          /\ rd.op = "mark_notification_read" =>
                 /\ read_rows.notifications[rd.target].is_read
                 /\ rd.saved <=> ~rd.was_read
          /\ rd.op = "mark_message_read" =>
                 /\ read_rows.messages[rd.target].is_read
                 /\ rd.saved <=> ~rd.was_read)
    /\ [][(rd'.op \in {"Notification.mark_as_read", "Message.mark_as_read",
                       "mark_notification_read", "mark_message_read"}
              /\ rd'.was_read) =>
              /\ read_rows' = read_rows
              /\ read_objs' = read_objs
              /\ ~rd'.saved]_<<read_rows, read_objs, rd>>
    /\ [][rd'.op = "mark_all_as_read" =>
              \A i \in 1..Len(read_rows.notifications) :
                  read_rows.notifications[i].user # rd'.user =>
                      read_rows'.notifications[i] = read_rows.notifications[i]]_<<read_rows, rd>>

\* Two unread notifications of user2: one was marked read on its own, the
\* other by mark_all_as_read (its object in memory is stale), and then the
\* first was marked again, without a save.
C23_Witness ==
    /\ Len(read_rows.notifications) = 2
    /\ \A i \in 1..2 : read_rows.notifications[i].user = "user2"
    /\ rd.op = "Notification.mark_as_read" /\ rd.target = 1
    /\ rd.was_read /\ ~rd.saved
    /\ get_unread_count(read_rows.notifications, "user2") = 0
    /\ read_objs.notifications = <<TRUE, FALSE>>

\* C29: after any calls of send_message, start_conversation and send_reply
\* on an empty table, no message has one user as sender and receiver, and
\* the sender and receiver of every reply are the two users of its parent;
\* a call that adds a reply was made by one of them.
C29_RepliesStayBetweenTheTwo ==
    /\ [](\A i \in 1..Len(view_messages) :
              LET m == view_messages[i]
              IN  /\ m.sender # m.receiver
                  /\ m.sender \in ViewUsers /\ m.receiver \in ViewUsers
                  /\ m.parent_message # 0 =>
                         /\ m.parent_message < i
                         /\ {m.sender, m.receiver} =
                                {view_messages[m.parent_message].sender,
                                 view_messages[m.parent_message].receiver})
    /\ [][/\ Len(view_messages') <= Len(view_messages) + 1
          /\ Len(view_messages') > Len(view_messages) =>
                 /\ vr'.created
                 /\ Last(view_messages').sender = vr'.user
                 /\ SubSeq(view_messages', 1, Len(view_messages)) = view_messages
          /\ Len(view_messages') = Len(view_messages) =>
                 view_messages' = view_messages /\ ~vr'.created]_<<view_messages, vr>>

\* Al wrote to bo, bo replied, and al replied to the reply.
C29_Witness ==
    /\ view_messages = << [sender |-> <<97, 108>>, receiver |-> <<98, 111>>, parent_message |-> 0],
                          [sender |-> <<98, 111>>, receiver |-> <<97, 108>>, parent_message |-> 1],
                          [sender |-> <<97, 108>>, receiver |-> <<98, 111>>, parent_message |-> 2] >>
    /\ vr.view = "send_reply" /\ vr.user = <<97, 108>> /\ vr.created

\* A reply by a user who is not part of the conversation was refused.
StrangerRefused ==
    /\ Len(view_messages) = 1
    /\ vr.view = "send_reply" /\ ~vr.created
    /\ vr.user \notin {view_messages[1].sender, view_messages[1].receiver}

\* The POSTs of ip passed on in the time_window seconds that end at t.
PassedWithin(ip, t) ==
    Len(SelectSeq(wall.passed[ip], LAMBDA at : at > t - time_window /\ at <= t))

\* C17: for every client IP at most 5 POSTs are passed on within any 60
\* seconds; a 429 goes to a POST only, with Retry-After and without passing
\* it on; and a POST that arrives when 5 passed POSTs of its IP lie within
\* the last 60 seconds is not passed on.
C17_FivePerMinutePerIP ==
    /\ [](/\ \A ip \in ClientIPs :
                 \A i \in 1..Len(wall.passed[ip]) :
                     PassedWithin(ip, wall.passed[ip][i]) <= max_messages
          /\ \A w \in Workers :
                 workers[w].response.status = 429 =>
                     /\ workers[w].request.method = "POST"
                     /\ ~workers[w].response.passed_on
                     /\ workers[w].response.retry_after = time_window)
    /\ [][\A w \in Workers :
              (workers[w].pc = "appended" /\ workers'[w].pc = "allowed") =>
                  PassedWithin(workers[w].ip, workers[w].current_time) < max_messages
         ]_<<workers, wall>>

\* The worker whose step changed the history of an IP.
Stepped(w) == workers'[w] # workers[w]

\* C27: under any interleaving of the workers of one middleware instance,
\* the history of an IP never holds more than max_messages timestamps; a
\* POST that is accepted has appended exactly one timestamp and a POST that
\* is rejected none; only one worker at a time is between taking the lock
\* and returning; and the history of an IP is changed only by a worker that
\* handles a POST of that IP.
C27_HistoryBoundedUnderInterleaving ==
    /\ [](/\ \A ip \in ClientIPs : Len(ip_message_history[ip]) <= max_messages
          /\ \A w \in Workers :
                 workers[w].pc \in {"limited", "allowed", "returned"} =>
                     workers[w].appends =
                         IF workers[w].request.method = "POST" /\ ~workers[w].limited
                         THEN 1 ELSE 0
          /\ \A a, b \in Workers :
                 /\ workers[a].pc \in {"locked", "cleaned", "counted", "appended"}
                 /\ workers[b].pc \in {"locked", "cleaned", "counted", "appended"}
                 => a = b /\ lock = a)
    /\ [][\A ip \in ClientIPs :
              ip_message_history'[ip] # ip_message_history[ip] =>
                  \E w \in Workers :
                      /\ Stepped(w)
                      /\ workers[w].request.method = "POST" /\ workers[w].ip = ip
                      /\ \/ /\ workers'[w].pc = "appended"
                            /\ ip_message_history'[ip] =
                                   Append(ip_message_history[ip], workers[w].current_time)
                         \/ /\ workers'[w].pc = "cleaned"
                            /\ Len(ip_message_history'[ip]) < Len(ip_message_history[ip])
         ]_<<ip_message_history, workers>>

\* One worker has appended the fifth timestamp of an IP and still holds the
\* lock while the other, with a POST of the same IP, waits for it.
C27_Witness ==
    \E a, b \in Workers :
        /\ workers[a].pc = "appended" /\ workers[b].pc = "timed"
        /\ workers[a].ip = workers[b].ip
        /\ Len(ip_message_history[workers[a].ip]) = max_messages
        /\ lock = a

\* A POST was rejected with five timestamps stored for its IP.
RejectedAtFive ==
    \E w \in Workers :
        /\ workers[w].pc = "returned" /\ workers[w].limited
        /\ Len(ip_message_history[workers[w].ip]) = max_messages

====
